---- MODULE Spec2Model ----
(***************************************************************************)
(* Model of the highlight-window selection and hook / loop-duration        *)
(* planning of the Shorts clipper (backend/pipeline/analyze_audio.py and   *)
(* backend/app.py).                                                        *)
(*                                                                         *)
(* Number representation.  Series values are small naturals.  A sequence   *)
(* index t of the code (0-based) is position t+1 of the TLA+ sequence.     *)
(* Quantities that are fractions in the code are kept as scaled integers:  *)
(*   - a threshold is kept times 100 (thr100), so rms[t] >= thr is         *)
(*     100*rms[t] >= thr100;                                               *)
(*   - a fraction limit (max_silence_frac) is kept in percent;             *)
(*   - times of app.py (seconds, possibly fractional) are kept in quarters *)
(*     of a second ("q" suffix): 6 means 1.5 s.                            *)
(* Where the code's floats differ from the fractions they stand for, the   *)
(* model follows the floats: app._percentile is computed in double         *)
(* arithmetic, digit for digit.  Where the float depends on the build (the *)
(* precision in which numpy forms a percentile, the order in which a sum   *)
(* is added up), an operator yields the set of the results the builds can  *)
(* give: the hook chooser its offsets, rms_threshold its thresholds, the   *)
(* peak ranker its orders.                                                 *)
(***************************************************************************)
EXTENDS Integers, Sequences, FiniteSets, TLC

\* ------------------------------------------------------------- helpers --

Max2(a, b) == IF a >= b THEN a ELSE b

Min2(a, b) == IF a <= b THEN a ELSE b

Abs(a) == IF a >= 0 THEN a ELSE 0 - a

\* x[t] for a 0-based index t
At(x, t) == x[t + 1]

\* python slice x[a:b]: a negative index counts from the end of x, and both
\* indices are then clipped to 0..len(x)
Slice(x, a, b) ==
    LET n  == Len(x)
        lo == IF a < 0 THEN Max2(0, n + a) ELSE Min2(a, n)
        hi == IF b < 0 THEN Max2(0, n + b) ELSE Min2(b, n)
    IN  IF hi <= lo THEN << >> ELSE [i \in 1..(hi - lo) |-> x[lo + i]]

Reverse(x) == [i \in 1..Len(x) |-> x[Len(x) + 1 - i]]

RECURSIVE SumSeq(_)
SumSeq(x) == IF x = << >> THEN 0 ELSE Head(x) + SumSeq(Tail(x))

\* sorted(values): position i holds the value v with fewer than i values
\* below it and at least i values at or below it
Sorted(x) ==
    [i \in 1..Len(x) |->
        CHOOSE v \in {x[j] : j \in 1..Len(x)} :
            /\ Cardinality({j \in 1..Len(x) : x[j] < v}) < i
            /\ i <= Cardinality({j \in 1..Len(x) : x[j] <= v})]

\* ------------------------------------------------- binary floating point --
\* The code's fractions are floats: doubles in app.py, doubles or single
\* precision in numpy.  A natural number too wide for one integer is a sequence
\* of digits in base 2^LimbBits, least significant first; a float is the
\* record [m, e] of value m * 2^e, m being such a number.
LimbBits == 15

Limb == 2 ^ LimbBits

\* the digits of a natural below 2^30
BigOf(v) == IF v < Limb THEN << v >> ELSE << v % Limb, v \div Limb >>

\* the digits of x * m + carry, for 0 <= m < 2^15
RECURSIVE BigMulSmall(_, _, _)
BigMulSmall(x, m, carry) ==
    IF x = << >> THEN (IF carry = 0 THEN << >> ELSE << carry >>)
    ELSE << (Head(x) * m + carry) % Limb >>
         \o BigMulSmall(Tail(x), m, (Head(x) * m + carry) \div Limb)

\* floor(x / d) and x mod d for 0 < d < 2^15, from the top digit down; rem is
\* the remainder carried in from the digits above
RECURSIVE BigDivSmall(_, _, _)
BigDivSmall(x, d, rem) ==
    IF x = << >> THEN [q |-> << >>, r |-> rem]
    ELSE LET cur == rem * Limb + x[Len(x)]
             lo  == BigDivSmall(SubSeq(x, 1, Len(x) - 1), d, cur % d)
         IN  [q |-> lo.q \o << cur \div d >>, r |-> lo.r]

RECURSIVE BigInc(_)
BigInc(x) ==
    IF x = << >> THEN << 1 >>
    ELSE IF Head(x) + 1 < Limb THEN << Head(x) + 1 >> \o Tail(x)
    ELSE << 0 >> \o BigInc(Tail(x))

RECURSIVE BigVal(_)
BigVal(x) == IF x = << >> THEN 0 ELSE Head(x) + Limb * BigVal(Tail(x))

BigDigit(x, j) == IF j <= Len(x) THEN x[j] ELSE 0

\* x + y + carry
RECURSIVE BigAdd(_, _, _)
BigAdd(x, y, carry) ==
    IF x = << >> /\ y = << >> THEN (IF carry = 0 THEN << >> ELSE << carry >>)
    ELSE << (BigDigit(x, 1) + BigDigit(y, 1) + carry) % Limb >>
         \o BigAdd(IF x = << >> THEN x ELSE Tail(x), IF y = << >> THEN y ELSE Tail(y),
                   (BigDigit(x, 1) + BigDigit(y, 1) + carry) \div Limb)

\* x < y
BigLess(x, y) ==
    \E j \in 1..Max2(Len(x), Len(y)) :
        /\ BigDigit(x, j) < BigDigit(y, j)
        /\ \A i \in (j + 1)..Max2(Len(x), Len(y)) : BigDigit(x, i) = BigDigit(y, i)

\* the number of binary digits of x
BigBitLen(x) ==
    LET used == {j \in 1..Len(x) : x[j] # 0}
    IN  IF used = {} THEN 0
        ELSE LET top == CHOOSE j \in used : \A i \in used : i <= j
             IN  (top - 1) * LimbBits
                 + (CHOOSE w \in 1..LimbBits : 2 ^ (w - 1) <= x[top] /\ x[top] < 2 ^ w)

\* floor(x / 2^cnt)
BigShr(x, cnt) ==
    LET a == cnt \div LimbBits
        b == cnt % LimbBits
    IN  IF Len(x) <= a THEN << >>
        ELSE [j \in 1..(Len(x) - a) |->
                (x[j + a] \div 2 ^ b)
                + (BigDigit(x, j + a + 1) % 2 ^ b) * 2 ^ (LimbBits - b)]

\* x * 2^cnt
BigShl(x, cnt) ==
    [j \in 1..(cnt \div LimbBits) |-> 0] \o BigMulSmall(x, 2 ^ (cnt % LimbBits), 0)

\* x mod 2^cnt
BigLow(x, cnt) ==
    [j \in 1..Min2(Len(x), cnt \div LimbBits + 1) |->
        IF j <= cnt \div LimbBits THEN x[j] ELSE x[j] % 2 ^ (cnt % LimbBits)]

\* binary digit i of x, digit 0 being the lowest
BigBit(x, i) == (BigDigit(x, i \div LimbBits + 1) \div 2 ^ (i % LimbBits)) % 2

\* x mod 2^cnt = 0
BigLowZero(x, cnt) ==
    /\ \A j \in 1..Len(x) : j <= cnt \div LimbBits => x[j] = 0
    /\ BigDigit(x, cnt \div LimbBits + 1) % 2 ^ (cnt % LimbBits) = 0

\* the width of the significand of a double, and of a single-precision float
Mantissa == 53

SingleMantissa == 24

\* x with its low cnt > 0 binary digits dropped, rounded to nearest, ties to
\* even, kept being floor(x / 2^cnt)
RoundKept(x, cnt, kept) ==
    IF BigBit(x, cnt - 1) = 1 /\ (~BigLowZero(x, cnt - 1) \/ kept[1] % 2 = 1)
    THEN BigInc(kept) ELSE kept

\* x * 2^e with the low cnt binary digits of x rounded away
RoundAt(x, e, cnt) ==
    IF cnt <= 0 THEN [m |-> x, e |-> e]
    ELSE [m |-> RoundKept(x, cnt, BigShr(x, cnt)), e |-> e + cnt]

\* x * 2^e rounded to the nearest float with a significand of width digits
RoundFloat(x, e, width) == RoundAt(x, e, BigBitLen(x) - width)

\* binary digits of a quotient developed before it is rounded
DivDigits == 64

\* a quotient p / d developed to DivDigits binary digits: floor(p * 2^DivDigits / d)
\* and the remainder, for 0 < p and 0 < d < 2^15
DevelopQuotient(p, d) == BigDivSmall(BigShl(BigOf(p), DivDigits), d, 0)

\* the float nearest to a developed quotient q: one more digit, 1 when the
\* division left a remainder, stands for all the digits not developed
QuotientFloat(q, width) ==
    RoundFloat(BigMulSmall(q.q, 2, IF q.r = 0 THEN 0 ELSE 1), 0 - DivDigits - 1, width)

\* p / d rounded to a float
FloatDiv(p, d, width) == QuotientFloat(DevelopQuotient(p, d), width)

\* x * m rounded to a float, 0 <= m < 2^15
FloatMulInt(x, m, width) == RoundFloat(BigMulSmall(x.m, m, 0), x.e, width)

\* the float x with an exponent that is not positive
Aligned(x) == IF x.e > 0 THEN [m |-> BigShl(x.m, x.e), e |-> 0] ELSE x

\* int(x) for a float x >= 0
FloatFloor(x) == BigVal(BigShr(Aligned(x).m, 0 - Aligned(x).e))

\* x - int(x), which a float holds without rounding
FloatFrac(x) == [m |-> BigLow(Aligned(x).m, 0 - Aligned(x).e), e |-> Aligned(x).e]

\* a + x rounded to a float, for a natural a
FloatAddInt(a, x, width) ==
    RoundFloat(BigAdd(BigShl(BigOf(a), 0 - Aligned(x).e), Aligned(x).m, 0),
               Aligned(x).e, width)

\* the natural v as a float
FloatOf(v) == [m |-> BigOf(v), e |-> 0]

\* x < v and x > v for a float x and a natural v
FloatBelowInt(x, v) == BigLess(Aligned(x).m, BigShl(BigOf(v), 0 - Aligned(x).e))

FloatAboveInt(x, v) == BigLess(BigShl(BigOf(v), 0 - Aligned(x).e), Aligned(x).m)

\* xs[f] + (xs[c] - xs[f]) * (k - f) for sorted naturals xs, the float k and
\* f = int(k): the difference k - f is exact, the product and the sum are rounded
Interpolate(xs, k, f, c, width) ==
    IF c = f THEN FloatOf(At(xs, f))
    ELSE FloatAddInt(At(xs, f),
                     FloatMulInt(FloatFrac(k), At(xs, c) - At(xs, f), width), width)

\* the percentile of the sorted values xs at the float index k:
\* f = int(k), c = min(f + 1, len(xs) - 1)
PercentileOfSorted(xs, k, f, width) == Interpolate(xs, k, f, Min2(f + 1, Len(xs) - 1), width)

\* k = (len(xs) - 1) * (p / 100.0), 0 < p < 100: the quotient is rounded, then
\* the product is
FloatIndex(m, p, width) == FloatMulInt(FloatDiv(p, 100, width), m, width)

PercentileAt(xs, k, width) == PercentileOfSorted(xs, k, FloatFloor(k), width)

\* np.percentile(x, p), linear interpolation, for a non-empty x and an integer
\* 0 <= p <= 100, as the fraction it stands for, times 100:
\* k = (n-1)*p/100, f = floor(k), result = xs[f] + (xs[f+1]-xs[f])*(k-f).
\* The float numpy returns is this fraction, or lies a hair beside it; the hair
\* matters where the fraction is a level of the series (PercentileAbove).
Percentile100(x, p) ==
    LET xs == Sorted(x)
        n  == Len(xs)
        k100 == (n - 1) * p
        f  == k100 \div 100
        c  == Min2(f + 1, n - 1)
    IN  100 * At(xs, f) + (At(xs, c) - At(xs, f)) * (k100 - 100 * f)

\* the widths in which numpy forms the index k = (n-1) * (p/100) and
\* interpolates: doubles, or single precision when a build keeps the
\* arithmetic in the precision of a float32 series
IndexWidths == {Mantissa, SingleMantissa}

\* the float index k falls on the second f, the whole number (n-1)*p/100 it
\* stands for, and the interpolation from xs[f] towards a larger xs[f+1] gives
\* a float above xs[f]
LerpAbove(xs, f, k, width) ==
    /\ FloatFloor(k) = f
    /\ At(xs, f + 1) > At(xs, f)
    /\ FloatAboveInt(PercentileAt(xs, k, width), At(xs, f))

\* np.percentile(x, p) lies a hair above Percentile100(x, p) / 100 although the
\* index (n-1)*p/100 is the whole number f and the fraction is xs[f]: the float
\* index is a hair above f, and the result a hair above xs[f]
PercentileAbove(x, p, width) ==
    /\ 0 < p /\ p < 100
    /\ ((Len(x) - 1) * p) % 100 = 0
    /\ ((Len(x) - 1) * p) \div 100 + 1 <= Len(x) - 1
    /\ LerpAbove(Sorted(x), ((Len(x) - 1) * p) \div 100,
                 FloatIndex(Len(x) - 1, p, width), width)

\* np.clip(v, lo, hi)
Clip(v, lo, hi) == Max2(lo, Min2(hi, v))

\* --------------------------------------------------- analyze_audio.py --

\* _smooth(x, k=5), times 5: the moving sum over [i-2, i+2] (zero outside the
\* series) when len(x) >= 5, the series itself (times 5) when it is shorter.
\* The sum is the fraction the single-precision sum of np.convolve stands for.
_smooth(x) ==
    IF Len(x) < 5 THEN [i \in 1..Len(x) |-> 5 * x[i]]
    ELSE [i \in 1..Len(x) |->
            SumSeq(Slice(x, Max2(0, i - 3), i + 2))]

\* whether the float of _smooth(x)[i] is the same in every build: the series is
\* copied, or at most one nonzero product enters the sum.  A sum of several
\* products is rounded after each addition, so two seconds whose sums are the
\* same fraction can differ in the last digit, in a way that depends on the
\* order of the terms and on how the build adds them.
SmoothExact(x) ==
    [i \in 1..Len(x) |->
        \/ Len(x) < 5
        \/ Cardinality({j \in Max2(1, i - 2)..Min2(Len(x), i + 2) : x[j] # 0}) <= 1]

\* np.argsort(score): the build's sort is not stable, so every order of the
\* indices (0-based) that is ascending by score is a possible result.  The
\* score of second i is score[i], or up to slack[i] more where the build
\* decides it: i can come first when no second is below it in every build.
RECURSIVE ArgsortOf(_, _, _)
ArgsortOf(score, slack, S) ==
    IF S = {} THEN { << >> }
    ELSE LET lows == {i \in S : \A j \in S :
                         At(score, i) <= At(score, j) + At(slack, j)}
         IN  UNION { { << i >> \o rest : rest \in ArgsortOf(score, slack, S \ {i}) }
                     : i \in lows }

ArgsortOpen(score, slack) == ArgsortOf(score, slack, 0..(Len(score) - 1))

Argsort(score) == ArgsortOpen(score, [i \in 1..Len(score) |-> 0])

\* a ranking that forgets the reversal [::-1] (ascending by energy)
candidate_peaks_ascending(rms) == Argsort(_smooth(rms))

\* candidate_peaks_by_energy(rms): the possible results of
\* np.argsort(smooth)[::-1]
candidate_peaks_by_energy(rms) == { Reverse(o) : o \in Argsort(_smooth(rms)) }

\* the threshold thr as the whole number thr100 with, for every level v of a
\* series, v >= thr exactly when 100 * v >= thr100 (and so for <, <= and >):
\* the percentile times 100, and one more when the float lies a hair above a
\* level
Thr100(pct100, above) == IF above THEN pct100 + 1 ELSE pct100

\* the double np.percentile(x, p) returns when it lies a hair above a level
\* is still above that level once it is cast to single precision
CastAbove(x, p) ==
    /\ PercentileAbove(x, p, Mantissa)
    /\ \A thr \in { PercentileAt(Sorted(x), FloatIndex(Len(x) - 1, p, Mantissa),
                                  Mantissa) } :
          FloatAboveInt(RoundFloat(thr.m, thr.e, SingleMantissa),
                        At(Sorted(x), ((Len(x) - 1) * p) \div 100))

\* thr as the code's two kinds of comparison see it.  thr100 is thr against
\* one second (rms[t] >= thr, rms[t] < thr) and seg100 is thr against a
\* float32 array (seg < thr), which casts thr to single precision.  Where the
\* percentile was formed in doubles the scalar comparison is made in doubles
\* and the two can differ; where it was formed in single precision thr is a
\* single-precision value and the cast changes nothing.
ThresholdOf(x, p, width) ==
    [thr100 |-> Thr100(Percentile100(x, p), PercentileAbove(x, p, width)),
     seg100 |-> Thr100(Percentile100(x, p),
                       IF width = Mantissa THEN CastAbove(x, p)
                       ELSE PercentileAbove(x, p, width))]

\* rms_threshold(rms, percentile): the thresholds the builds can return
rms_threshold(rms, percentile) ==
    IF Len(rms) = 0 THEN { [thr100 |-> 0, seg100 |-> 0] }
    ELSE { ThresholdOf(rms, Clip(percentile, 0, 100), width) : width \in IndexWidths }

\* p99 > p10 as floats although the two are the same fraction lo: two or more
\* seconds lie on that level and the float of one of them depends on the
\* build, so that the seconds of the level need not hold the same float
Stretches(x, exact, lo) ==
    /\ Cardinality({i \in 1..Len(x) : 100 * x[i] = lo}) >= 2
    /\ \E i \in 1..Len(x) : 100 * x[i] = lo /\ ~exact[i]

\* p99 > p10 as floats although the two are the same fraction: p99 lies a hair
\* above it
HairStretches(x) == \E width \in IndexWidths : PercentileAbove(x, 99, width)

\* the largest value of a non-empty series
MaxOf(x) == CHOOSE v \in {x[i] : i \in 1..Len(x)} : \A i \in 1..Len(x) : x[i] <= v

\* _normalize01(x): (x - p10) / (p99 - p10) clipped to [0, 1], all zero when
\* p99 <= p10.  The result is the numerators num[i] over one denominator den.
\* exact[i] says that the float of x[i] is the same in every build.  up[i] is
\* how far above num[i] / den the build can put second i: when p99 and p10 are
\* the same fraction, the floats can differ in the last digit, and the
\* division stretches that digit to the whole range [0, 1].  peak is the
\* largest value that entered the division (0 when the result is np.zeros_like
\* and nothing was divided): the roundings of y = (x - lo) / (hi - lo) grow
\* with peak / (hi - lo).
_normalize01(x, exact) ==
    IF Len(x) = 0 THEN [num |-> << >>, den |-> 1, up |-> << >>, peak |-> 0]
    ELSE LET lo == Percentile100(x, 10)
             hi == Percentile100(x, 99)
         IN  IF hi <= lo
             THEN [num |-> [i \in 1..Len(x) |-> 0], den |-> 1,
                   up  |-> [i \in 1..Len(x) |->
                              IF \/ Stretches(x, exact, lo) /\ 100 * x[i] >= lo
                                 \/ HairStretches(x) /\ 100 * x[i] > lo
                              THEN 1 ELSE 0],
                   peak |-> 0]
             ELSE [num |-> [i \in 1..Len(x) |-> Clip(100 * x[i] - lo, 0, hi - lo)],
                   den |-> hi - lo,
                   up  |-> [i \in 1..Len(x) |-> 0],
                   peak |-> MaxOf(x)]

\* np.pad(x, (0, n - len(x)), mode="edge") for a non-empty x
PadEdge(x, n) == [i \in 1..n |-> IF i <= Len(x) THEN x[i] ELSE x[Len(x)]]

\* np.pad(..., mode="edge") raises ValueError on an empty array that has to be
\* extended: the case in which candidate_peaks_by_audio_and_motion raises
PadRaises(rms, motion) ==
    LET n == Max2(Len(rms), Len(motion))
    IN  \/ Len(rms) < n /\ Len(rms) = 0
        \/ Len(motion) < n /\ Len(motion) = 0

\* a and m of candidate_peaks_by_audio_and_motion: the smoothed audio and the
\* motion, padded to one length and normalised
NormalizedAudio(rms, motion) ==
    _normalize01(PadEdge(_smooth(rms), Max2(Len(rms), Len(motion))),
                 PadEdge(SmoothExact(rms), Max2(Len(rms), Len(motion))))

NormalizedMotion(rms, motion) ==
    _normalize01(PadEdge(motion, Max2(Len(rms), Len(motion))),
                 [i \in 1..Max2(Len(rms), Len(motion)) |-> TRUE])

\* a + motion_weight * m over the common denominator 100 * a.den * m.den
\* (motion_weight is in percent)
WeightedSum(a, m, motion_weight) ==
    [i \in 1..Len(a.num) |-> 100 * a.num[i] * m.den + motion_weight * m.num[i] * a.den]

\* a / b rounded up, for a >= 0 and b > 0
CeilDiv(a, b) == (a + b - 1) \div b

\* The score is computed in single precision, every operation rounded to 24
\* binary digits (relative error at most 2^-24 each).  A normalised value
\* (x - lo) / (hi - lo) of n seconds is off by at most
\*     2^-24 * (NoiseFactor(n) * peak / (hi - lo) + 1):
\* the smoothed x carries 6 roundings (the kernel 1/5, a product, four
\* additions), each percentile 2n + 3 more (its index (n-1) * (p/100) is
\* rounded twice and moves the interpolation by at most 2n * peak, the
\* interpolation is rounded three times), lo and hi - lo are cast to single
\* precision, the difference and the quotient are rounded: 17 + 2n roundings
\* reach the numerator and 19 + 4n the denominator.  The factor is their sum
\* and a third more for the terms of second order.
NoiseFactor(n) == 64 + 8 * n

\* binary digits dropped at each of the two steps in which the bound is
\* brought to the unit 2^-24 without leaving the integers
NoiseShift == 12

\* twice the bound on the rounding of a + motion_weight * m (the distance at
\* which two scores can still come out in either order), over the denominator
\* 100 * a.den * m.den of WeightedSum and rounded down to a whole numerator:
\* the roundings of a, motion_weight times those of m, and those of the cast
\* of motion_weight, of the product and of the sum
WeightedNoise(a, m, motion_weight) ==
    ( 2 * ( CeilDiv(NoiseFactor(Len(a.num)) * 10000 * a.peak, 2 ^ NoiseShift) * m.den
          + CeilDiv(NoiseFactor(Len(a.num)) * 100 * motion_weight * m.peak,
                    2 ^ NoiseShift) * a.den
          + CeilDiv((200 + 4 * motion_weight) * a.den, 2 ^ NoiseShift) * m.den ) )
    \div 2 ^ NoiseShift

\* the part of the score that the build decides, over the same denominator:
\* the seconds whose normalised value the build can lift, and the rounding
WeightedSlack(a, m, motion_weight) ==
    CHOOSE slack \in { [i \in 1..Len(a.num) |->
                          100 * a.up[i] * a.den * m.den
                          + motion_weight * m.up[i] * m.den * a.den + noise]
                      : noise \in { WeightedNoise(a, m, motion_weight) } } : TRUE

\* the score of candidate_peaks_by_audio_and_motion, a + motion_weight * m, as
\* the fraction it stands for, with every second whose normalised value the
\* build decides at its lowest
AudioMotionScore(rms, motion, motion_weight) ==
    WeightedSum(NormalizedAudio(rms, motion), NormalizedMotion(rms, motion),
                motion_weight)

\* how far above AudioMotionScore the build can put the score of each second
AudioMotionSlack(rms, motion, motion_weight) ==
    WeightedSlack(NormalizedAudio(rms, motion), NormalizedMotion(rms, motion),
                  motion_weight)

\* candidate_peaks_by_audio_and_motion(rms, motion, motion_weight): the possible
\* results of np.argsort(score)[::-1] (when np.pad does not raise)
candidate_peaks_by_audio_and_motion(rms, motion, motion_weight) ==
    IF Max2(Len(rms), Len(motion)) = 0 THEN { << >> }
    ELSE UNION { { Reverse(o) : o \in ArgsortOpen(scored[1], scored[2]) }
                 : scored \in { << AudioMotionScore(rms, motion, motion_weight),
                                   AudioMotionSlack(rms, motion, motion_weight) >> } }

\* the result None of refine_clip_window
None == [none |-> TRUE, start |-> 0, end |-> 0]

Window(s, e) == [none |-> FALSE, start |-> s, end |-> e]

\* a ramp test that does not compare the second with the one before it
IsRampNoPrev(rms, t, thr100) ==
    LET next_ok == (t + 1 < Len(rms)) /\ (100 * At(rms, t + 1) >= thr100)
    IN  100 * At(rms, t) >= thr100 /\ next_ok

\* the ramp test of the start search at second t
IsRamp(rms, t, thr100) ==
    LET prev_ok == (t = 0) \/ (At(rms, t) >= At(rms, t - 1))
        next_ok == (t + 1 < Len(rms)) /\ (100 * At(rms, t + 1) >= thr100)
    IN  100 * At(rms, t) >= thr100 /\ prev_ok /\ next_ok

\* the start search: for t in range(start_lo, start_hi), the first ramp;
\* -1 stands for "start is None"
RECURSIVE StartSearch(_, _, _, _)
StartSearch(rms, t, start_hi, thr100) ==
    IF t >= start_hi THEN -1
    ELSE IF IsRamp(rms, t, thr100) THEN t
    ELSE StartSearch(rms, t + 1, start_hi, thr100)

\* the fallback start "a bit before peak"
FallbackLead == 8

\* an end search that ends the clip at the last second of the quiet run
\* instead of its first
RECURSIVE EndSearchAtRunEnd(_, _, _, _, _, _)
EndSearchAtRunEnd(rms, t, hard_end, quiet_run, thr100, end_silence_run_sec) ==
    IF t > hard_end THEN hard_end
    ELSE IF 100 * At(rms, t) < thr100
         THEN IF quiet_run + 1 >= end_silence_run_sec
              THEN t
              ELSE EndSearchAtRunEnd(rms, t + 1, hard_end, quiet_run + 1, thr100,
                                     end_silence_run_sec)
         ELSE EndSearchAtRunEnd(rms, t + 1, hard_end, 0, thr100, end_silence_run_sec)

\* the end search: for t in range(min_end, hard_end + 1) with the running
\* quiet_run; the value is the end (hard_end when the loop never breaks)
RECURSIVE EndSearch(_, _, _, _, _, _)
EndSearch(rms, t, hard_end, quiet_run, thr100, end_silence_run_sec) ==
    IF t > hard_end THEN hard_end
    ELSE IF 100 * At(rms, t) < thr100
         THEN IF quiet_run + 1 >= end_silence_run_sec
              THEN t - end_silence_run_sec + 1
              ELSE EndSearch(rms, t + 1, hard_end, quiet_run + 1, thr100,
                             end_silence_run_sec)
         ELSE EndSearch(rms, t + 1, hard_end, 0, thr100, end_silence_run_sec)

\* a start search that begins one second before start_lo
RefineStartEarly(rms, peak, c, thr100) ==
    LET start_lo == Max2(0, peak - c.pre_search_sec)
        start_hi == Max2(0, peak - c.min_leadin_sec)
        found    == StartSearch(rms, Max2(0, start_lo - 1), start_hi, thr100)
    IN  IF found = -1 THEN Max2(0, peak - FallbackLead) ELSE found

\* a start search whose fallback reaches ten seconds back instead of eight
RefineStartLongFallback(rms, peak, c, thr100) ==
    LET start_lo == Max2(0, peak - c.pre_search_sec)
        start_hi == Max2(0, peak - c.min_leadin_sec)
        found    == StartSearch(rms, start_lo, start_hi, thr100)
    IN  IF found = -1 THEN Max2(0, peak - 10) ELSE found

\* the start refine_clip_window settles on (ramp or fallback), given the peak
\* already clipped into the series
RefineStart(rms, peak, c, thr100) ==
    LET start_lo == Max2(0, peak - c.pre_search_sec)
        start_hi == Max2(0, peak - c.min_leadin_sec)
        found    == StartSearch(rms, start_lo, start_hi, thr100)
    IN  IF found = -1 THEN Max2(0, peak - FallbackLead) ELSE found

\* a refinement that caps the end at start + min_dur_sec instead of max_dur_sec
refine_clip_window_min_cap(rms, peak_sec, c, thr100) ==
    LET n == Len(rms)
    IN  IF n = 0 THEN None
        ELSE
        LET peak     == Clip(peak_sec, 0, n - 1)
            start_lo == Max2(0, peak - c.pre_search_sec)
            start_hi == Max2(0, peak - c.min_leadin_sec)
        IN  IF start_hi <= start_lo THEN None
            ELSE
            LET start    == RefineStart(rms, peak, c, thr100)
                min_end  == start + c.min_dur_sec
                hard_end == Min2(n - 1, start + c.min_dur_sec)
            IN  IF min_end >= n THEN None
                ELSE
                LET end == EndSearch(rms, min_end, hard_end, 0, thr100,
                                     c.end_silence_run_sec)
                IN  IF end <= start THEN None ELSE Window(start, end)

\* refine_clip_window(rms, peak_sec, **c, thr): None or the window (start, end)
refine_clip_window(rms, peak_sec, c, thr100) ==
    LET n == Len(rms)
    IN  IF n = 0 THEN None
        ELSE
        LET peak     == Clip(peak_sec, 0, n - 1)
            start_lo == Max2(0, peak - c.pre_search_sec)
            start_hi == Max2(0, peak - c.min_leadin_sec)
        IN  IF start_hi <= start_lo THEN None
            ELSE
            LET start    == RefineStart(rms, peak, c, thr100)
                min_end  == start + c.min_dur_sec
                hard_end == Min2(n - 1, start + c.max_dur_sec)
            IN  IF min_end >= n THEN None
                ELSE
                LET end == EndSearch(rms, min_end, hard_end, 0, thr100,
                                     c.end_silence_run_sec)
                IN  IF end <= start THEN None ELSE Window(start, end)

\* silence_fraction(rms, start, end, thr) as the pair (quiet seconds, seconds)
\* of rms[start : end + 1]; an empty segment counts as all quiet (1.0).
\* seg < thr compares a float32 array with thr: seg100 is thr in that cast
silence_fraction(rms, start, end, seg100) ==
    LET seg == Slice(rms, start, end + 1)
    IN  IF Len(seg) = 0 THEN [quiet |-> 1, of |-> 1]
        ELSE [quiet |-> Cardinality({i \in 1..Len(seg) : 100 * seg[i] < seg100}),
              of    |-> Len(seg)]

\* frac > max_silence_frac (max_silence_frac in percent)
FracExceeds(frac, max_silence_frac) == 100 * frac.quiet > max_silence_frac * frac.of

\* chosen.sort(key=lambda x: x[0]): a stable sort by start
RECURSIVE InsertByStart(_, _)
InsertByStart(ws, w) ==
    IF ws = << >> THEN << w >>
    ELSE IF w[1] < Head(ws)[1] THEN << w >> \o ws
    ELSE << Head(ws) >> \o InsertByStart(Tail(ws), w)

RECURSIVE SortByStart(_)
SortByStart(ws) ==
    IF ws = << >> THEN << >>
    ELSE InsertByStart(SortByStart(SubSeq(ws, 1, Len(ws) - 1)), ws[Len(ws)])

\* a spacing test that is off by one (accepts peaks min_gap_sec - 1 apart)
TooCloseOffByOne(peak, chosen_centers, min_gap_sec) ==
    \E k \in 1..Len(chosen_centers) : Abs(peak - chosen_centers[k]) < min_gap_sec - 1

\* the spacing test: any(abs(peak - c) < min_gap_sec for c in chosen_centers)
TooClose(peak, chosen_centers, min_gap_sec) ==
    \E k \in 1..Len(chosen_centers) : Abs(peak - chosen_centers[k]) < min_gap_sec

\* the loop of select_highlight_starts over candidates[i..]: the accepted
\* windows (in acceptance order) and their peaks
RECURSIVE SelectLoop(_, _, _, _, _, _, _)
SelectLoop(rms, c, thr, candidates, i, chosen, chosen_centers) ==
    IF i > Len(candidates) \/ Len(chosen) >= c.desired_count
    THEN [chosen |-> chosen, chosen_centers |-> chosen_centers]
    ELSE
    LET peak == candidates[i]
        win  == refine_clip_window(rms, peak, c, thr.thr100)
        skip == \/ TooClose(peak, chosen_centers, c.min_gap_sec)
                \/ win.none
                \/ FracExceeds(silence_fraction(rms, win.start, win.end, thr.seg100),
                               c.max_silence_frac)
    IN  IF skip
        THEN SelectLoop(rms, c, thr, candidates, i + 1, chosen, chosen_centers)
        ELSE SelectLoop(rms, c, thr, candidates, i + 1,
                        Append(chosen, << win.start, win.end >>),
                        Append(chosen_centers, peak))

\* what the selection loop leaves for the threshold thr: the list in
\* acceptance order as the returned list (no final sort)
SelectedUnsorted(r, thr) ==
    [wins |-> r.chosen, chosen |-> r.chosen,
     chosen_centers |-> r.chosen_centers, thr100 |-> thr.thr100, seg100 |-> thr.seg100]

\* a selection that returns the windows in acceptance order (no final sort)
select_highlight_starts_unsorted(rms, c, candidates) ==
    { SelectedUnsorted(SelectLoop(rms, c, thr, candidates, 1, << >>, << >>), thr)
      : thr \in rms_threshold(rms, c.silence_percentile) }

\* what the selection loop leaves for the threshold thr: the returned list
\* (sorted by start), with the acceptance-order list, the peaks and thr
Selected(r, thr) ==
    [wins |-> SortByStart(r.chosen), chosen |-> r.chosen,
     chosen_centers |-> r.chosen_centers, thr100 |-> thr.thr100, seg100 |-> thr.seg100]

\* select_highlight_starts(rms, **c) for one order of the candidates: one
\* result for each threshold rms_threshold can return
select_highlight_starts(rms, c, candidates) ==
    { Selected(SelectLoop(rms, c, thr, candidates, 1, << >>, << >>), thr)
      : thr \in rms_threshold(rms, c.silence_percentile) }

\* ------------------------------------------------------------- app.py --
\* Times are in quarters of a second (suffix _q); whole seconds are unsuffixed.

\* math.floor(x) and math.ceil(x) of a time given in quarters
FloorQ(x_q) == x_q \div 4

CeilQ(x_q) == 0 - ((0 - x_q) \div 4)

\* round(x) of a non-negative time given in quarters: python rounds a tie to
\* the even neighbour
RoundQ(x_q) ==
    LET m == x_q \div 4
        r == x_q % 4
    IN  IF r < 2 THEN m
        ELSE IF r > 2 THEN m + 1
        ELSE IF m % 2 = 0 THEN m ELSE m + 1

RECURSIVE MinSeq(_)
MinSeq(x) == IF Len(x) = 1 THEN x[1] ELSE Min2(Head(x), MinSeq(Tail(x)))

RECURSIVE MaxSeq(_)
MaxSeq(x) == IF Len(x) = 1 THEN x[1] ELSE Max2(Head(x), MaxSeq(Tail(x)))

\* _normalize(arr): (x - mn) / (mx - mn), all zero when mx = mn; numerators num
\* over one denominator den
_normalize(arr) ==
    IF Len(arr) = 0 THEN [num |-> << >>, den |-> 1]
    ELSE LET mn == MinSeq(arr)
             mx == MaxSeq(arr)
         IN  IF mx - mn = 0
             THEN [num |-> [i \in 1..Len(arr) |-> 0], den |-> 1]
             ELSE [num |-> [i \in 1..Len(arr) |-> arr[i] - mn], den |-> mx - mn]

\* _scene_counts_per_second(scene_events, start_sec, dur_sec) for whole
\* start_sec and dur_sec; the events are times in quarters
_scene_counts_per_second(scene_events, start_sec, dur_sec) ==
    LET n == Max2(1, dur_sec)
    IN  [i \in 1..n |->
            Cardinality({e \in 1..Len(scene_events) :
                /\ 4 * start_sec <= scene_events[e]
                /\ scene_events[e] < 4 * (start_sec + dur_sec)
                /\ (scene_events[e] - 4 * start_sec) \div 4 = i - 1})]

\* "motion_per_sec is None" / "scene_events is None"
NoSeries == << -1 >>

\* the score list of choose_hook_offset_sec over the slice, over the common
\* denominator of the three normalised signals
HookScore(audio_slice, motion_slice, scene_slice, sh_cfg) ==
    LET n  == Len(audio_slice)
        aN == _normalize(audio_slice)
        mN == IF Len(motion_slice) > 0 THEN _normalize(motion_slice)
              ELSE [num |-> [i \in 1..n |-> 0], den |-> 1]
        sN == IF Len(scene_slice) > 0 THEN _normalize(scene_slice)
              ELSE [num |-> [i \in 1..n |-> 0], den |-> 1]
    IN  IF sh_cfg.strategy = "loudest" THEN aN.num
        ELSE IF sh_cfg.strategy = "motion" /\ Len(motion_slice) > 0 THEN mN.num
        ELSE [i \in 1..n |->
                sh_cfg.audio_weight * aN.num[i] * mN.den * sN.den
              + sh_cfg.motion_weight * mN.num[i] * aN.den * sN.den
              + sh_cfg.scene_weight * sN.num[i] * aN.den * mN.den]

\* num / den is a dyadic fraction: the double of the quotient holds it without
\* rounding (0 <= num, 0 < den, both below 2^15)
IsDyadic(num, den) == \E j \in 0..15 : (num * 2 ^ j) % den = 0

\* weight * (num / den) is held without rounding: the quotient is rounded
\* first and the weight multiplies the rounded quotient, so the product is the
\* fraction it stands for only when the quotient is, or when the weight is 0
TermExact(weight, num, den) == weight = 0 \/ IsDyadic(num, den)

\* what the doubles of the score list are made of, second by second: key, the
\* numerators of the normalised signals the score adds up, and exact, whether
\* every weighted term and hence the score is held without rounding
HookTerms(audio_slice, motion_slice, scene_slice, sh_cfg) ==
    LET n  == Len(audio_slice)
        aN == _normalize(audio_slice)
        mN == IF Len(motion_slice) > 0 THEN _normalize(motion_slice)
              ELSE [num |-> [i \in 1..n |-> 0], den |-> 1]
        sN == IF Len(scene_slice) > 0 THEN _normalize(scene_slice)
              ELSE [num |-> [i \in 1..n |-> 0], den |-> 1]
    IN  IF sh_cfg.strategy = "loudest"
        THEN [i \in 1..n |-> [key |-> << aN.num[i] >>,
                              exact |-> IsDyadic(aN.num[i], aN.den)]]
        ELSE IF sh_cfg.strategy = "motion" /\ Len(motion_slice) > 0
        THEN [i \in 1..Len(motion_slice) |->
                [key |-> << mN.num[i] >>, exact |-> IsDyadic(mN.num[i], mN.den)]]
        ELSE [i \in 1..n |->
                [key   |-> << aN.num[i], mN.num[i], sN.num[i] >>,
                 exact |-> /\ TermExact(sh_cfg.audio_weight, aN.num[i], aN.den)
                           /\ TermExact(sh_cfg.motion_weight, mN.num[i], mN.den)
                           /\ TermExact(sh_cfg.scene_weight, sN.num[i], sN.den)]]

\* sum(score[k:k + win]) adds doubles that hold their scores without rounding
WindowExact(terms, k, win) ==
    \A i \in 1..Len(Slice(terms, k, k + win)) : Slice(terms, k, k + win)[i].exact

\* the windows at j and k add the same doubles in the same order
SameWindow(terms, j, k, win) ==
    [i \in 1..Len(Slice(terms, j, j + win)) |-> Slice(terms, j, j + win)[i].key]
    = [i \in 1..Len(Slice(terms, k, k + win)) |-> Slice(terms, k, k + win)[i].key]

\* avg_score of the windows at j and k, equal as fractions, can differ as
\* doubles: a rounded score enters one of the sums, and the two do not add the
\* same doubles. Which of the two is then the larger depends on the rounding
\* of the sums, which sum() does differently from one interpreter to the next.
MayDiffer(terms, j, k, win) ==
    /\ ~SameWindow(terms, j, k, win)
    /\ ~(WindowExact(terms, j, win) /\ WindowExact(terms, k, win))

\* best_val = -1e9, "no window chosen yet" (every score of the model is above it)
UnsetBest == -1000000000

\* one pass of the sliding-window selection, for k in range(k, end_k + 1), of
\* the loop that started at start_k: the outcomes (best_k, best_val) it can end
\* with. Averages are compared as sums over the same win seconds, best_val
\* being the sum as a fraction; a window that ties with the best so far takes
\* over when its double average is the larger one, which it can be when it
\* may differ from every window that tied before it.
RECURSIVE HookPass(_, _, _, _, _, _, _, _, _, _, _)
HookPass(score, terms, audio_slice, start_k, k, end_k, win, min_rms, require_rms, best_k, best_val) ==
    IF k > end_k THEN {[best_k |-> best_k, best_val |-> best_val]}
    ELSE
    LET sum_score  == SumSeq(Slice(score, k, k + win))
        skipped(j) == require_rms /\ SumSeq(Slice(audio_slice, j, j + win)) < min_rms * win
        tied == {j \in start_k..(k - 1) :
                    ~skipped(j) /\ SumSeq(Slice(score, j, j + win)) = sum_score}
        keep == HookPass(score, terms, audio_slice, start_k, k + 1, end_k, win,
                         min_rms, require_rms, best_k, best_val)
        take == HookPass(score, terms, audio_slice, start_k, k + 1, end_k, win,
                         min_rms, require_rms, k, sum_score)
    IN  IF skipped(k) THEN keep
        ELSE IF sum_score > best_val THEN take
        ELSE IF sum_score = best_val /\ \A j \in tied : MayDiffer(terms, j, k, win)
        THEN keep \cup take
        ELSE keep

\* a selection without the fallback pass
HookBestKNoFallback(score, terms, audio_slice, win, sh_cfg) ==
    LET n        == Len(audio_slice)
        tail_len == Min2(n, Max2(win + 1, sh_cfg.search_tail_sec))
        start_k  == Max2(0, n - tail_len)
        end_k    == n - win
    IN  {r.best_k : r \in HookPass(score, terms, audio_slice, start_k, start_k, end_k,
                                   win, sh_cfg.min_rms, TRUE, start_k, UnsetBest)}

\* the slice indices best_k the two passes can settle on
HookBestK(score, terms, audio_slice, win, sh_cfg) ==
    LET n        == Len(audio_slice)
        tail_len == Min2(n, Max2(win + 1, sh_cfg.search_tail_sec))
        start_k  == Max2(0, n - tail_len)
        end_k    == n - win
        first    == HookPass(score, terms, audio_slice, start_k, start_k, end_k, win,
                             sh_cfg.min_rms, TRUE, start_k, UnsetBest)
    IN  IF \A r \in first : r.best_val < -100000000
        THEN {r.best_k : r \in HookPass(score, terms, audio_slice, start_k, start_k,
                                        end_k, win, sh_cfg.min_rms, FALSE, start_k,
                                        UnsetBest)}
        ELSE {r.best_k : r \in first}

\* a chooser that returns the offset without the final clamp
choose_hook_offset_unclamped(clip_start_q, clip_dur_q, hook_q, rms_per_sec, motion_per_sec, scene_events, sh_cfg) ==
    LET max_offset == Max2(0, clip_dur_q - hook_q)
        g0 == Max2(0, FloorQ(clip_start_q))
        g1 == Min2(Len(rms_per_sec), CeilQ(clip_start_q + clip_dur_q))
        audio_slice == Slice(rms_per_sec, g0, g1)
        n  == Len(audio_slice)
        motion_slice == IF motion_per_sec # NoSeries /\ Len(motion_per_sec) >= g1
                        THEN Slice(motion_per_sec, g0, g1) ELSE << >>
        scene_slice  == IF scene_events # NoSeries
                        THEN _scene_counts_per_second(scene_events, g0, n)
                        ELSE << >>
        win == Max2(1, RoundQ(hook_q))
    IN  IF hook_q <= 0 THEN {0}
        ELSE IF max_offset <= 0 THEN {0}
        ELSE IF n = 0 THEN {Max2(0, Min2(max_offset, clip_dur_q - hook_q))}
        ELSE IF n <= win THEN {0}
        ELSE
        LET score == HookScore(audio_slice, motion_slice, scene_slice, sh_cfg)
            terms == HookTerms(audio_slice, motion_slice, scene_slice, sh_cfg)
        IN  {4 * (g0 + best_k) - clip_start_q :
                best_k \in HookBestK(score, terms, audio_slice, win, sh_cfg)}

\* choose_hook_offset_sec(...): the hook start offsets relative to the clip
\* start, in quarters, the call can return
choose_hook_offset_sec(clip_start_q, clip_dur_q, hook_q, rms_per_sec, motion_per_sec, scene_events, sh_cfg) ==
    LET max_offset == Max2(0, clip_dur_q - hook_q)
        g0 == Max2(0, FloorQ(clip_start_q))
        g1 == Min2(Len(rms_per_sec), CeilQ(clip_start_q + clip_dur_q))
        audio_slice == Slice(rms_per_sec, g0, g1)
        n  == Len(audio_slice)
        motion_slice == IF motion_per_sec # NoSeries /\ Len(motion_per_sec) >= g1
                        THEN Slice(motion_per_sec, g0, g1) ELSE << >>
        scene_slice  == IF scene_events # NoSeries
                        THEN _scene_counts_per_second(scene_events, g0, n)
                        ELSE << >>
        win == Max2(1, RoundQ(hook_q))
    IN  IF hook_q <= 0 THEN {0}
        ELSE IF max_offset <= 0 THEN {0}
        ELSE IF n = 0 THEN {Max2(0, Min2(max_offset, clip_dur_q - hook_q))}
        ELSE IF n <= win THEN {0}
        ELSE
        LET score == HookScore(audio_slice, motion_slice, scene_slice, sh_cfg)
            terms == HookTerms(audio_slice, motion_slice, scene_slice, sh_cfg)
        IN  {Max2(0, Min2(max_offset, 4 * (g0 + best_k) - clip_start_q)) :
                best_k \in HookBestK(score, terms, audio_slice, win, sh_cfg)}

\* _percentile(values, p) for an integer p and values that are naturals below
\* 2^15: the double returned, as the float [m, e] of value m * 2^e
_percentile(values, p) ==
    IF Len(values) = 0 THEN FloatOf(0)
    ELSE IF p <= 0 THEN FloatOf(At(Sorted(values), 0))
    ELSE IF p >= 100 THEN FloatOf(At(Sorted(values), Len(values) - 1))
    ELSE PercentileAt(Sorted(values), FloatIndex(Len(values) - 1, p, Mantissa), Mantissa)

\* float(v) <= thr for a second of level v
AtMostThr(v, thr) == ~FloatBelowInt(thr, v)

\* a silence fraction that counts only the seconds strictly below the threshold
silence_fraction_adaptive_strict(start_q, end_q, rms_per_sec, silence_percentile) ==
    LET g0 == Max2(0, FloorQ(start_q))
        g1 == Min2(Len(rms_per_sec), CeilQ(end_q))
        xs == Slice(rms_per_sec, g0, g1)
        thr == _percentile(xs, silence_percentile)
    IN  IF end_q <= start_q THEN [quiet |-> 1, of |-> 1]
        ELSE IF g1 <= g0 THEN [quiet |-> 1, of |-> 1]
        ELSE [quiet |-> Cardinality({i \in 1..Len(xs) : FloatAboveInt(thr, xs[i])}),
              of    |-> Max2(1, Len(xs))]

\* silence_fraction_adaptive(start_sec, end_sec, rms_per_sec, silence_percentile)
\* as the pair (silent seconds, seconds); 1.0 is (1, 1)
silence_fraction_adaptive(start_q, end_q, rms_per_sec, silence_percentile) ==
    LET g0 == Max2(0, FloorQ(start_q))
        g1 == Min2(Len(rms_per_sec), CeilQ(end_q))
        xs == Slice(rms_per_sec, g0, g1)
        thr == _percentile(xs, silence_percentile)
    IN  IF end_q <= start_q THEN [quiet |-> 1, of |-> 1]
        ELSE IF g1 <= g0 THEN [quiet |-> 1, of |-> 1]
        ELSE [quiet |-> Cardinality({i \in 1..Len(xs) : AtMostThr(xs[i], thr)}),
              of    |-> Max2(1, Len(xs))]

\* a search that returns the duration it stopped at, below min_d, when no
\* duration qualifies
RECURSIVE LoopSearchPastMin(_, _, _)
LoopSearchPastMin(a, d_q, rms_per_sec) ==
    IF d_q < a.min_d_q THEN d_q
    ELSE
    LET body_len   == Max2(0, d_q - a.hook_q)
        body_start == a.climax_q - body_len
        frac == silence_fraction_adaptive(body_start, a.climax_q, rms_per_sec,
                                          a.silence_percentile)
    IN  IF ~FracExceeds(frac, a.max_silence_frac) THEN d_q
        ELSE LoopSearchPastMin(a, d_q - 4, rms_per_sec)

\* the while loop of choose_loop_duration_sec from duration d_q downward
RECURSIVE LoopSearch(_, _, _)
LoopSearch(a, d_q, rms_per_sec) ==
    IF d_q < a.min_d_q THEN a.min_d_q
    ELSE
    LET body_len   == Max2(0, d_q - a.hook_q)
        body_start == a.climax_q - body_len
        frac == silence_fraction_adaptive(body_start, a.climax_q, rms_per_sec,
                                          a.silence_percentile)
    IN  IF ~FracExceeds(frac, a.max_silence_frac) THEN d_q
        ELSE LoopSearch(a, d_q - 4, rms_per_sec)

\* feasible_max of choose_loop_duration_sec
FeasibleMax(a) ==
    Max2(a.hook_q, Min2(a.max_d_q, a.hook_q + Max2(0, a.climax_q - a.window_start_q)))

\* a chooser whose short-circuit returns feasible_max without the floor min_d
choose_loop_duration_no_floor(a, rms_per_sec) ==
    LET feasible_max == FeasibleMax(a)
        d_q == 4 * FloorQ(feasible_max)
    IN  IF d_q < a.min_d_q THEN feasible_max
        ELSE LoopSearch(a, d_q, rms_per_sec)

\* choose_loop_duration_sec(**a, rms_per_sec): the final duration, in quarters
choose_loop_duration_sec(a, rms_per_sec) ==
    LET feasible_max == FeasibleMax(a)
        d_q == 4 * FloorQ(feasible_max)
    IN  IF d_q < a.min_d_q THEN Max2(a.min_d_q, feasible_max)
        ELSE LoopSearch(a, d_q, rms_per_sec)

\* ---------------------------------------------------------------- state --

VARIABLES
    pc,            \* position in process_video / in the function applied
    rms,           \* the energy series (rms, rms_per_sec)
    motion,        \* the motion series, NoSeries for None
    c,             \* the clips configuration (keyword arguments of select_highlight_starts)
    candidates,    \* the ranked candidate peaks
    sel,           \* what select_highlight_starts produced
    env,           \* process_video's other inputs: probed duration, flags, detector output
    starts,        \* the clips (start, duration) still planned
    scene_events,  \* process_video's local scene_events, Unassigned until bound
    plans,         \* the clips handed to render_vertical_short, in order
    trashed,       \* whether the original was moved to the recycle bin
    args,          \* the remaining arguments of the function applied
    ret            \* its return value

vars == << pc, rms, motion, c, candidates, sel, env, starts, scene_events, plans,
           trashed, args, ret >>

\* the pipeline variables of process_video
pipe == << env, starts, scene_events, plans, trashed >>

\* ---------------------------------------------------------------- bounds --

\* longest series drawn exhaustively
MaxLen == 4

\* largest value of a series second
MaxVal == 1

SeriesUpTo(n) == UNION { [1..k -> 0..MaxVal] : k \in 0..n }

\* a series of length n that is v at the 0-based seconds in S and 0 elsewhere
Bursts(n, S, v) == [i \in 1..n |-> IF (i - 1) \in S THEN v ELSE 0]

\* the series of the plateau scenario: [0,0,0,5,5,5,5,0,0,0]
PlateauSeries == Bursts(10, 3..6, 5)

PlateauCfg ==
    [desired_count |-> 1, min_gap_sec |-> 1, min_dur_sec |-> 2, max_dur_sec |-> 5,
     pre_search_sec |-> 3, min_leadin_sec |-> 0, silence_percentile |-> 50,
     max_silence_frac |-> 50, end_silence_run_sec |-> 2, motion_weight |-> 0]

\* configurations drawn with every short series
ClipCfgs ==
    [desired_count : 0..2, min_gap_sec : {1, 2}, min_dur_sec : {1, 2},
     max_dur_sec : {1, 2}, pre_search_sec : {1, 2}, min_leadin_sec : {0},
     silence_percentile : {0, 50, 100}, max_silence_frac : {50, 100},
     end_silence_run_sec : {1, 2}, motion_weight : {0}]

\* the configuration drawn with a motion series (energy+motion ranking)
MotionCfgs ==
    [desired_count : {2}, min_gap_sec : {1, 2}, min_dur_sec : {1},
     max_dur_sec : {2}, pre_search_sec : {2}, min_leadin_sec : {0},
     silence_percentile : {50}, max_silence_frac : {100},
     end_silence_run_sec : {1}, motion_weight : {100}]

\* motion series drawn with an energy series of length n: the empty one, and
\* single bursts of length n and n + 1
MotionsFor(n) ==
    { << >> } \cup { Bursts(L, {j}, 1) : L \in {n, n + 1} \ {0}, j \in 0..n }

\* two bursts ten seconds apart: [1,1,0,0,0,0,0,0,1,0,3]
WideSeries == << 1, 1, 0, 0, 0, 0, 0, 0, 1, 0, 3 >>

WideCfg ==
    [desired_count |-> 2, min_gap_sec |-> 9, min_dur_sec |-> 1, max_dur_sec |-> 1,
     pre_search_sec |-> 1, min_leadin_sec |-> 0, silence_percentile |-> 50,
     max_silence_frac |-> 100, end_silence_run_sec |-> 1, motion_weight |-> 0]

\* 26 seconds with the levels 0..25 once each and no two smoothed sums alike.
\* The 28th percentile has the index 25 * 0.28, a hair above 7 in doubles, and
\* the 60th the index 25 * 0.6, a hair above 15 in single precision: the
\* threshold is then a hair above the level 7, or 15, of one second
HairSeries == << 13, 12, 3, 17, 6, 1, 14, 5, 18, 11, 16, 0, 10, 15, 24, 23, 20, 22,
                 9, 2, 7, 21, 19, 8, 25, 4 >>

HairCfgs ==
    [desired_count : {2}, min_gap_sec : {3}, min_dur_sec : {1}, max_dur_sec : {4},
     pre_search_sec : {2}, min_leadin_sec : {0}, silence_percentile : {28, 60},
     max_silence_frac : {50}, end_silence_run_sec : {1}, motion_weight : {0}]

\* 8 seconds whose smoothed sums are all 7/5, each added up from three nonzero
\* products in another order, with a motion series: in single precision the
\* sums differ in the last digit, and the normalisation stretches it
OpenSeries == << 1, 4, 2, 0, 0, 1, 4, 2 >>

OpenMotion == << 1, 1, 3, 1, 2, 3, 1, 2 >>

OpenCfgs ==
    [desired_count : {2}, min_gap_sec : {2}, min_dur_sec : {1}, max_dur_sec : {2},
     pre_search_sec : {2}, min_leadin_sec : {0}, silence_percentile : {50},
     max_silence_frac : {100}, end_silence_run_sec : {1}, motion_weight : {5}]

\* 8 seconds with a motion series whose scores at seconds 1 and 2, under the
\* weight 0.29, are 1 + 1/9430693 and 1: the two are the same single-precision
\* float when numpy forms the percentiles in single precision, and the ranking
\* can then put second 2 first
NearTieSeries == << 3, 3, 1, 3, 1, 0, 0, 1 >>

NearTieMotion == << 31, 22, 5, 11, 13, 9, 50, 15 >>

NearTieCfgs ==
    [desired_count : {2}, min_gap_sec : {2}, min_dur_sec : {1}, max_dur_sec : {2},
     pre_search_sec : {2}, min_leadin_sec : {0}, silence_percentile : {50},
     max_silence_frac : {100}, end_silence_run_sec : {1}, motion_weight : {29}]

\* 16 seconds of low levels with a burst of 9 added at second a and one of 7 at
\* second b, eleven or more seconds later: long enough for two windows whose
\* peaks are as far apart as a window and a fallback start can reach
FarTexture == << 2, 3, 3, 1, 0, 0, 0, 0, 0, 3, 2, 1, 1, 1, 1, 2 >>

FarSeries ==
    { [i \in 1..Len(FarTexture) |->
          FarTexture[i] + (IF i - 1 = a THEN 9 ELSE 0) + (IF i - 1 = b THEN 7 ELSE 0)]
      : a \in 1..3, b \in 12..15 }

\* configurations drawn with the long series: an end_silence_run_sec of 0 or
\* less ends the clip past the quiet second, a pre_search_sec above 8 reaches
\* further back than the fallback start
FarCfgs ==
    [desired_count : {2}, min_gap_sec : {5}, min_dur_sec : {1}, max_dur_sec : {1, 2},
     pre_search_sec : {1, 9}, min_leadin_sec : {0, 1}, silence_percentile : {50, 85},
     max_silence_frac : {100}, end_silence_run_sec : {-1, 0, 1, 2},
     motion_weight : {0}]

NoSel ==
    [wins |-> << >>, chosen |-> << >>, chosen_centers |-> << >>, thr100 |-> 0,
     seg100 |-> 0]

NoArgs == [fn |-> "none"]

NoEnv == [fn |-> "none"]

\* a local name that has not been bound
Unassigned == << -2 >>

\* the pipeline variables before process_video has used them
PipeIdle ==
    /\ starts = << >>
    /\ scene_events = Unassigned
    /\ plans = << >>
    /\ trashed = FALSE

\* ------------------------------------------------- select_highlight_starts --

InitSelect ==
    /\ pc = "start"
    /\ \/ /\ rms \in SeriesUpTo(MaxLen)
          /\ c \in ClipCfgs
          /\ motion = NoSeries
       \/ /\ rms \in SeriesUpTo(MaxLen)
          /\ c \in MotionCfgs
          /\ motion \in MotionsFor(Len(rms))
       \/ /\ rms = PlateauSeries
          /\ c = PlateauCfg
          /\ motion = NoSeries
       \/ /\ rms = WideSeries
          /\ c = WideCfg
          /\ motion = NoSeries
       \/ /\ rms = HairSeries
          /\ c \in HairCfgs
          /\ motion = NoSeries
       \/ /\ rms = OpenSeries
          /\ c \in OpenCfgs
          /\ motion = OpenMotion
       \/ /\ rms = NearTieSeries
          /\ c \in NearTieCfgs
          /\ motion = NearTieMotion
       \/ /\ rms \in FarSeries
          /\ c \in FarCfgs
          /\ motion = NoSeries
    /\ candidates = << >>
    /\ sel = NoSel
    /\ env = NoEnv
    /\ PipeIdle
    /\ args = NoArgs
    /\ ret = 0

UseMotion == motion # NoSeries /\ c.motion_weight > 0

\* lines 208-212: the threshold and the ranking of the candidate peaks; the
\* ranking raises when np.pad is asked to extend an empty series
Rank ==
    /\ pc = "start"
    /\ IF UseMotion /\ PadRaises(rms, motion)
       THEN /\ pc' = "raised"
            /\ candidates' = candidates
       ELSE /\ pc' = "ranked"
            /\ candidates' \in
                 IF UseMotion
                 THEN candidate_peaks_by_audio_and_motion(rms, motion, c.motion_weight)
                 ELSE candidate_peaks_by_energy(rms)
    /\ UNCHANGED << rms, motion, c, sel, pipe, args, ret >>

\* lines 214-247: the selection loop and the final sort
Select ==
    /\ pc = "ranked"
    /\ sel' \in select_highlight_starts(rms, c, candidates)
    /\ pc' = "selected"
    /\ UNCHANGED << rms, motion, c, candidates, pipe, args, ret >>

NextSelect == Rank \/ Select

SpecSelect == InitSelect /\ [][NextSelect]_vars

\* ---------------------------------------------------- boring_detect.py --

\* overlap_seconds(intervals, start, end), in quarters
RECURSIVE overlap_seconds(_, _, _)
overlap_seconds(intervals, start_q, end_q) ==
    IF intervals = << >> THEN 0
    ELSE LET lo == Max2(start_q, Head(intervals)[1])
             hi == Min2(end_q, Head(intervals)[2])
         IN  (IF hi > lo THEN hi - lo ELSE 0)
             + overlap_seconds(Tail(intervals), start_q, end_q)

\* count_events_in_window(events, start, end): timestamps within [start, end]
count_events_in_window(events, start_q, end_q) ==
    Cardinality({e \in 1..Len(events) : start_q <= events[e] /\ events[e] <= end_q})

\* ------------------------------------------------------- process_video --

\* lines 286-294: the windows kept as (start, duration): those that end before
\* the probed duration
RECURSIVE BuildStartsOf(_, _)
BuildStartsOf(wins, duration_q) ==
    IF wins = << >> THEN << >>
    ELSE LET s == Head(wins)[1]
             d == Head(wins)[2] - Head(wins)[1]
             rest == BuildStartsOf(Tail(wins), duration_q)
         IN  IF s < 0 THEN rest
             ELSE IF 4 * (s + d) < duration_q THEN << << s, d >> >> \o rest
             ELSE rest

\* lines 330-337: whether the boring filter drops the clip (s, d)
IsBoring(s, d, freeze_intervals, events, e) ==
    \/ /\ freeze_intervals # << >>
       /\ overlap_seconds(freeze_intervals, 4 * s, 4 * (s + d)) > e.max_freeze_q
    \/ /\ events # << >>
       /\ count_events_in_window(events, 4 * s, 4 * (s + d)) < e.min_scene

RECURSIVE BoringFilterOf(_, _, _, _)
BoringFilterOf(sd, freeze_intervals, events, e) ==
    IF sd = << >> THEN << >>
    ELSE LET rest == BoringFilterOf(Tail(sd), freeze_intervals, events, e)
         IN  IF IsBoring(Head(sd)[1], Head(sd)[2], freeze_intervals, events, e)
             THEN rest
             ELSE << Head(sd) >> \o rest

\* lines 365-383: the plan of the clip (s, d) whose hook starts hook_offset
\* into the window: climax, final duration, final start and the hook offset
\* handed to the renderer (quarters)
ClipPlanAt(s, d, e, hook_offset) ==
    LET hook_q      == e.hook_q
        climax_t    == 4 * s + hook_offset
        final_d     == choose_loop_duration_sec(
                          [window_start_q |-> 4 * s, climax_q |-> climax_t,
                           hook_q |-> hook_q,
                           min_d_q |-> 4 * c.min_dur_sec, max_d_q |-> 4 * c.max_dur_sec,
                           silence_percentile |-> c.silence_percentile,
                           max_silence_frac |-> c.max_silence_frac], rms)
        final_start == Max2(0, climax_t - (final_d - hook_q))
    IN  [start_sec |-> final_start, dur_sec |-> final_d, hook_sec |-> hook_q,
         hook_start_offset_sec |-> final_d - hook_q,
         s |-> s, d |-> d, hook_offset |-> hook_offset, climax_t |-> climax_t]

\* lines 352-383: the plans of the clip (s, d), one for each offset the hook
\* chooser can return
ClipPlan(s, d, e, events) ==
    LET offsets == IF e.sh_enabled
                   THEN choose_hook_offset_sec(4 * s, 4 * d, e.hook_q, rms, motion,
                                               events, e.sh_cfg)
                   ELSE {0}
    IN  {ClipPlanAt(s, d, e, hook_offset) : hook_offset \in offsets}

\* configurations drawn by process_video
PipeCfgs ==
    [desired_count : {2}, min_gap_sec : {1}, min_dur_sec : {1, 2},
     max_dur_sec : {2}, pre_search_sec : {2}, min_leadin_sec : {0},
     silence_percentile : {50}, max_silence_frac : {50, 100},
     end_silence_run_sec : {1}, motion_weight : {0}]

\* the hook strategy configuration (story_hook) drawn by process_video
PipeHookCfg ==
    [strategy |-> "combined", audio_weight |-> 1, motion_weight |-> 0,
     scene_weight |-> 1, search_tail_sec |-> 20, min_rms |-> 0]

\* boring_filter: the detect flags with what the detectors return (quarters)
BoringEnvs ==
    [detect_freeze : {FALSE}, detect_scene : {FALSE},
     freeze_intervals : {<< >>}, scene_detected : {<< >>}]
    \cup
    [detect_freeze : BOOLEAN, detect_scene : {TRUE},
     freeze_intervals : {<< << 0, 6 >> >>}, scene_detected : {<< >>, << 6 >>}]
    \cup
    [detect_freeze : {TRUE}, detect_scene : {FALSE},
     freeze_intervals : {<< << 0, 6 >> >>}, scene_detected : {<< >>}]

\* story_hook: off with the default hook_sec of 2 s, or on with 1 s or 2 s
HookEnvs ==
    { [sh_enabled |-> FALSE, hook_q |-> 8],
      [sh_enabled |-> TRUE, hook_q |-> 4],
      [sh_enabled |-> TRUE, hook_q |-> 8] }

\* --delete with the render call that raises (0: none does)
FinishEnvs ==
    { [delete_original |-> TRUE, render_fails_at |-> 0],
      [delete_original |-> TRUE, render_fails_at |-> 1],
      [delete_original |-> TRUE, render_fails_at |-> 2],
      [delete_original |-> FALSE, render_fails_at |-> 0] }

\* the probed duration of a video whose audio fills n whole seconds: n - 0.5 s
\* or n s
DurationsFor(n) == { 4 * n - 2, 4 * n } \ { -2 }

Env(b, h, f, duration_q) ==
    [duration_q |-> duration_q,
     detect_freeze |-> b.detect_freeze, detect_scene |-> b.detect_scene,
     freeze_intervals |-> b.freeze_intervals, scene_detected |-> b.scene_detected,
     max_freeze_q |-> 4, min_scene |-> 1,
     sh_enabled |-> h.sh_enabled, hook_q |-> h.hook_q, sh_cfg |-> PipeHookCfg,
     delete_original |-> f.delete_original, render_fails_at |-> f.render_fails_at]

Init ==
    /\ pc = "start"
    /\ rms \in SeriesUpTo(MaxLen)
    /\ motion = NoSeries
    /\ c \in PipeCfgs
    /\ env \in { Env(b, h, f, t) :
                   b \in BoringEnvs, h \in HookEnvs, f \in FinishEnvs,
                   t \in DurationsFor(Len(rms)) }
    /\ candidates = << >>
    /\ sel = NoSel
    /\ PipeIdle
    /\ args = NoArgs
    /\ ret = 0

\* lines 286-294
BuildStarts ==
    /\ pc = "selected"
    /\ env # NoEnv
    /\ starts' = BuildStartsOf(sel.wins, env.duration_q)
    /\ pc' = "built"
    /\ UNCHANGED << rms, motion, c, candidates, sel, env, scene_events, plans,
                    trashed, args, ret >>

\* lines 296-339: the boring filter; it binds scene_events only when it runs
BoringFilter ==
    /\ pc = "built"
    /\ IF starts # << >> /\ (env.detect_freeze \/ env.detect_scene)
       THEN LET freeze_intervals == IF env.detect_freeze THEN env.freeze_intervals
                                    ELSE << >>
                events == IF env.detect_scene THEN env.scene_detected ELSE << >>
            IN  /\ scene_events' = events
                /\ starts' = BoringFilterOf(starts, freeze_intervals, events, env)
       ELSE UNCHANGED << starts, scene_events >>
    /\ pc' = "filtered"
    /\ UNCHANGED << rms, motion, c, candidates, sel, env, plans, trashed, args, ret >>

\* lines 341-343: the early return when no clip is left
NoClips ==
    /\ pc = "filtered"
    /\ starts = << >>
    /\ pc' = "returned"
    /\ UNCHANGED << rms, motion, c, candidates, sel, pipe, args, ret >>

\* lines 349-406: one pass of the clip loop, for clip number Len(plans) + 1.
\* Reading the unbound scene_events raises before anything is rendered; a
\* render call that raises ends process_video.
PlanClip ==
    /\ pc = "filtered"
    /\ Len(plans) < Len(starts)
    /\ LET i == Len(plans) + 1
       IN  IF env.sh_enabled /\ scene_events = Unassigned
           THEN /\ pc' = "raised"
                /\ plans' = plans
           ELSE /\ \E plan \in ClipPlan(starts[i][1], starts[i][2], env, scene_events) :
                      plans' = Append(plans, plan)
                /\ pc' = IF env.render_fails_at = i THEN "raised" ELSE "filtered"
    /\ UNCHANGED << rms, motion, c, candidates, sel, env, starts, scene_events,
                    trashed, args, ret >>

\* a finish that does not wait for the clip loop to end
FinishBeforeLastRender ==
    /\ pc = "filtered"
    /\ starts # << >>
    /\ trashed' = env.delete_original
    /\ pc' = "done"
    /\ UNCHANGED << rms, motion, c, candidates, sel, env, starts, scene_events,
                    plans, args, ret >>

\* lines 409-413: after the last clip, the original is trashed on --delete
Finish ==
    /\ pc = "filtered"
    /\ starts # << >>
    /\ Len(plans) = Len(starts)
    /\ trashed' = env.delete_original
    /\ pc' = "done"
    /\ UNCHANGED << rms, motion, c, candidates, sel, env, starts, scene_events,
                    plans, args, ret >>

Next == Rank \/ Select \/ BuildStarts \/ BoringFilter \/ NoClips \/ PlanClip \/ Finish

Spec == Init /\ [][Next]_vars

\* ------------------------------------------------------ refine_clip_window --

\* thresholds (times 100) drawn for refine_clip_window: every level, one between
\* two levels, and one above every value
ThrLevels == { 100 * v : v \in 0..(MaxVal + 1) } \cup { 50 }

RefineCfgs ==
    [desired_count : {1}, min_gap_sec : {1}, min_dur_sec : {1, 2},
     max_dur_sec : {1, 2, 3}, pre_search_sec : {1, 2, 3}, min_leadin_sec : {0, 1},
     silence_percentile : {50}, max_silence_frac : {100},
     end_silence_run_sec : {0, 1, 2}, motion_weight : {0}]

\* the configurations drawn with the two long series
LongRefineCfgs ==
    { k \in RefineCfgs : k.min_leadin_sec = 0 /\ k.min_dur_sec = 1 }

InitRefine ==
    /\ pc = "call"
    /\ \/ /\ rms \in SeriesUpTo(MaxLen)
          /\ c \in RefineCfgs
       \/ /\ rms \in {PlateauSeries, WideSeries}
          /\ c \in LongRefineCfgs
    /\ args \in [fn : {"refine_clip_window"}, peak_sec : 0..Len(rms), thr100 : ThrLevels]
    /\ motion = NoSeries
    /\ candidates = << >>
    /\ sel = NoSel
    /\ env = NoEnv
    /\ PipeIdle
    /\ ret = None

\* refine_clip_window applied to the drawn arguments
Refine ==
    /\ pc = "call"
    /\ args.fn = "refine_clip_window"
    /\ ret' = refine_clip_window(rms, args.peak_sec, c, args.thr100)
    /\ pc' = "ret"
    /\ UNCHANGED << rms, motion, c, candidates, sel, pipe, args >>

NextRefine == Refine

SpecRefine == InitRefine /\ [][NextRefine]_vars

\* -------------------------------------------------- choose_hook_offset_sec --

HookCfgs ==
    [strategy : {"loudest", "motion", "combined"},
     audio_weight : {1}, motion_weight : {0, 1}, scene_weight : {0, 1},
     search_tail_sec : {2, 20}, min_rms : {0, 1}]

\* hook lengths drawn, in quarters: none, 0.25 s, 1 s, 1.5 s, 2 s
HookLengths == {0, 1, 4, 6, 8}

\* series whose normalised scores are thirds and fifths, which no double
\* holds, with sub-windows that tie as fractions
TieSeries == { << 0, 1, 3, 3, 1 >>, << 0, 0, 1, 3, 3, 1 >>, << 5, 1, 0, 4, 2, 3, 1 >>,
               << 2, 5, 1, 0, 2, 0 >>, << 0, 1, 4, 4, 1 >>, << 1, 3, 0, 1, 3, 0 >> }

TieArgs ==
    [fn : {"choose_hook_offset_sec"},
     clip_start_q : {0},
     clip_dur_q : {28},
     hook_q : {8, 12, 16},
     scene_events : {NoSeries},
     sh_cfg : [strategy : {"loudest", "combined"},
               audio_weight : {1}, motion_weight : {0, 1}, scene_weight : {0},
               search_tail_sec : {20}, min_rms : {0, 1}]]

\* series and weights whose weighted scores tie as fractions (49 * (1/49) and
\* 1 * 1) although the quotient 1/49 is rounded before the weight multiplies it
WeightedTieSeries == { << 49, 0, 1, 0 >>, << 7, 0, 1, 0 >> }

WeightedTieArgs ==
    [fn : {"choose_hook_offset_sec"},
     clip_start_q : {0},
     clip_dur_q : {16},
     hook_q : {4},
     scene_events : {NoSeries},
     sh_cfg : [strategy : {"combined"},
               audio_weight : {7, 49}, motion_weight : {1}, scene_weight : {0},
               search_tail_sec : {2, 20}, min_rms : {0}]]

InitHook ==
    /\ pc = "call"
    /\ \/ /\ rms \in SeriesUpTo(MaxLen)
          /\ motion \in {NoSeries, Reverse(rms)}
          /\ args \in [fn : {"choose_hook_offset_sec"},
                       clip_start_q : {0, 2, 4},
                       clip_dur_q : {4, 10, 4 * MaxLen},
                       hook_q : HookLengths,
                       scene_events : {NoSeries, << 2, 6, 6 >>},
                       sh_cfg : HookCfgs]
       \/ /\ rms \in TieSeries
          /\ motion \in {NoSeries, Reverse(rms)}
          /\ args \in TieArgs
       \/ /\ rms \in WeightedTieSeries
          /\ motion = << 0, 0, 0, 1 >>
          /\ args \in WeightedTieArgs
    /\ c = PlateauCfg
    /\ candidates = << >>
    /\ sel = NoSel
    /\ env = NoEnv
    /\ PipeIdle
    /\ ret = 0

\* choose_hook_offset_sec applied to the drawn arguments
ChooseHook ==
    /\ pc = "call"
    /\ args.fn = "choose_hook_offset_sec"
    /\ ret' \in choose_hook_offset_sec(args.clip_start_q, args.clip_dur_q, args.hook_q,
                                       rms, motion, args.scene_events, args.sh_cfg)
    /\ pc' = "ret"
    /\ UNCHANGED << rms, motion, c, candidates, sel, pipe, args >>

NextHook == ChooseHook

SpecHook == InitHook /\ [][NextHook]_vars

\* ------------------------------------------------ choose_loop_duration_sec --

\* arguments on the half-second grid, and a few with a hook of 1.75 s and a
\* minimum of 1.5 s
LoopArgs ==
    [fn : {"choose_loop_duration_sec"},
     window_start_q : {0, 4}, climax_q : {0, 4, 6, 10, 16}, hook_q : {4, 6, 8},
     min_d_q : {4, 8, 12}, max_d_q : {4, 8, 12},
     silence_percentile : {0, 50, 100}, max_silence_frac : {0, 50, 100}]
    \cup
    [fn : {"choose_loop_duration_sec"},
     window_start_q : {0}, climax_q : {0, 8}, hook_q : {7},
     min_d_q : {6}, max_d_q : {8, 12},
     silence_percentile : {50}, max_silence_frac : {50, 100}]

\* a body of LongLen seconds at the 58th percentile: the double index
\* 50 * (58 / 100.0) falls just below 29
LongLen == 51

LongQuiet == 29

\* the levels of the long series: between 0 and 1 the percentile stays a hair
\* under 1, between 32 and 33 the last sum rounds it to 33
LongLevels == {0, 32}

LongSeries ==
    UNION { { [i \in 1..LongLen |-> IF i <= LongQuiet THEN v ELSE v + 1],
              [i \in 1..LongLen |-> IF i <= LongLen - LongQuiet THEN v + 1 ELSE v] }
            : v \in LongLevels }

LongLoopArgs ==
    [fn : {"choose_loop_duration_sec"},
     window_start_q : {0}, climax_q : {4 * LongLen}, hook_q : {4},
     min_d_q : {4 * (LongLen - 1)}, max_d_q : {4 * (LongLen + 1)},
     silence_percentile : {50, 58}, max_silence_frac : {50, 60}]

InitLoop ==
    /\ pc = "call"
    /\ \/ rms \in SeriesUpTo(MaxLen) /\ args \in LoopArgs
       \/ rms \in LongSeries /\ args \in LongLoopArgs
    /\ motion = NoSeries
    /\ c = PlateauCfg
    /\ candidates = << >>
    /\ sel = NoSel
    /\ env = NoEnv
    /\ PipeIdle
    /\ ret = 0

\* choose_loop_duration_sec applied to the drawn arguments
ChooseLoop ==
    /\ pc = "call"
    /\ args.fn = "choose_loop_duration_sec"
    /\ ret' = choose_loop_duration_sec(args, rms)
    /\ pc' = "ret"
    /\ UNCHANGED << rms, motion, c, candidates, sel, pipe, args >>

NextLoop == ChooseLoop

SpecLoop == InitLoop /\ [][NextLoop]_vars

\* ---------------------------------------------------------------- claims --

\* the score the ranking of the current inputs sorts by
RankScore ==
    IF UseMotion THEN AudioMotionScore(rms, motion, c.motion_weight) ELSE _smooth(rms)

\* how far above RankScore the build can put the score of each second.  The
\* smoothed sums of whole levels are whole numbers of fifths: two that differ
\* are more than their rounding apart, and only equal sums can change places
RankSlack ==
    IF UseMotion THEN AudioMotionSlack(rms, motion, c.motion_weight)
    ELSE [i \in 1..Len(rms) |-> 0]

\* the second refine_clip_window refines around for candidate peak p
ClippedPeak(p) == Clip(p, 0, Len(rms) - 1)

\* C1: no two accepted windows originate from peaks that are less than
\* min_gap_sec apart.
C1_MinGapBetweenPeaks ==
    pc = "selected" =>
        \A i, j \in 1..Len(sel.chosen_centers) :
            i # j => Abs(sel.chosen_centers[i] - sel.chosen_centers[j]) >= c.min_gap_sec

\* two windows were accepted under a spacing of two seconds, and a candidate
\* ranked between their peaks was passed over
C1_Witness ==
    /\ pc = "selected"
    /\ c.min_gap_sec = 2
    /\ Len(sel.chosen_centers) = 2
    /\ \E k \in 1..Len(candidates) :
          /\ candidates[k] \notin {sel.chosen_centers[1], sel.chosen_centers[2]}
          /\ Abs(candidates[k] - sel.chosen_centers[1]) < 2
          /\ \E k2 \in (k + 1)..Len(candidates) : candidates[k2] = sel.chosen_centers[2]

\* windows [s1, e1) and [s2, e2) share a second
Overlap(w1, w2) == Max2(w1[1], w2[1]) < Min2(w1[2], w2[2])

\* C2 as stated: the returned windows are pairwise non-overlapping.
C2_NonOverlapping ==
    pc = "selected" =>
        \A i, j \in 1..Len(sel.wins) : i # j => ~Overlap(sel.wins[i], sel.wins[j])

\* how far the window of an earlier peak and the window of a later one reach
\* towards each other under the configuration c (min_leadin_sec >= 0): the
\* earlier window starts before its peak and ends at most max_dur_sec later,
\* or 1 - end_silence_run_sec seconds past that when end_silence_run_sec <= 0
\* (the end is then set past the quiet second that stops the search); the
\* later window starts at most max(pre_search_sec, 8) before its peak
WindowReach ==
    c.max_dur_sec + Max2(c.pre_search_sec, FallbackLead)
    + Max2(0, 1 - c.end_silence_run_sec) - 1

\* C2 amended: under a configuration with min_leadin_sec >= 0, two returned
\* windows do not overlap when the seconds they were refined around are at
\* least max_dur_sec + max(pre_search_sec, 8) + max(0, 1 - end_silence_run_sec)
\* - 1 apart (peaks that are closer, which min_gap_sec alone allows, can
\* overlap).
C2_FarPeaksDisjoint ==
    (pc = "selected" /\ c.min_leadin_sec >= 0) =>
        \A i, j \in 1..Len(sel.chosen) :
            ( ClippedPeak(sel.chosen_centers[j]) - ClippedPeak(sel.chosen_centers[i])
                >= WindowReach )
            => ~Overlap(sel.chosen[i], sel.chosen[j])

\* two windows were returned under an end_silence_run_sec below 1 whose peaks
\* are exactly that far apart, and the earlier window ends on the second the
\* later one starts at
C2_Witness ==
    /\ pc = "selected"
    /\ c.end_silence_run_sec <= 0
    /\ Len(sel.chosen) = 2
    /\ \E i, j \in 1..2 :
          /\ ClippedPeak(sel.chosen_centers[j]) - ClippedPeak(sel.chosen_centers[i])
                = WindowReach
          /\ sel.chosen[i][2] = sel.chosen[j][1]

IsPermutationOf(a, b) ==
    /\ Len(a) = Len(b)
    /\ \E f \in [1..Len(a) -> 1..Len(a)] :
          /\ \A i, j \in 1..Len(a) : i # j => f[i] # f[j]
          /\ \A i \in 1..Len(a) : a[i] = b[f[i]]

\* C3: at most desired_count windows are returned, and the returned list is
\* the accepted windows sorted ascending by start, whatever order they were
\* accepted in.
C3_CountAndSorted ==
    pc = "selected" =>
        /\ Len(sel.wins) <= c.desired_count
        /\ \A i \in 1..(Len(sel.wins) - 1) : sel.wins[i][1] <= sel.wins[i + 1][1]
        /\ IsPermutationOf(sel.wins, sel.chosen)

\* desired_count windows were accepted, the later-starting one first
C3_Witness ==
    /\ pc = "selected"
    /\ c.desired_count = 2
    /\ Len(sel.chosen) = 2
    /\ sel.chosen[1][1] > sel.chosen[2][1]

\* C8: with an empty energy series select_highlight_starts returns the empty
\* list and raises nothing, also with a motion series and a positive weight.
C8_EmptySeriesNoException ==
    Len(rms) = 0 =>
        /\ pc # "raised"
        /\ pc = "selected" => sel.wins = << >>

\* no candidate comes after one whose score is below its own in every build
Descending(cands, score, slack) ==
    \A i, j \in 1..Len(cands) :
        i < j => At(score, cands[i]) + At(slack, cands[i]) >= At(score, cands[j])

\* C9 as stated: the candidates are ordered by descending score, and among
\* equal scores the lower index comes first.
C9_TiesAscendingIndex ==
    pc = "ranked" =>
        \A score \in {RankScore}, slack \in {RankSlack} :
            /\ Descending(candidates, score, slack)
            /\ \A i \in 1..(Len(candidates) - 1) :
                  At(score, candidates[i]) = At(score, candidates[i + 1])
                      => candidates[i] < candidates[i + 1]

\* C9 amended: the candidates are every index of the score exactly once,
\* ordered by descending score; the order among equal scores is not fixed
\* (the reversal of an ascending sort does not put the lower index first).
\* The score is the single-precision float the build computed: no candidate
\* comes after one whose score, as a fraction, is below its own by more than
\* the rounding of that computation (RankSlack), and two seconds whose
\* fractions are closer than that can come in either order.
C9_DescendingByScore ==
    pc = "ranked" =>
        \A score \in {RankScore}, slack \in {RankSlack} :
            /\ Len(candidates) = Len(score)
            /\ \A t \in 0..(Len(score) - 1) : \E i \in 1..Len(candidates) : candidates[i] = t
            /\ Descending(candidates, score, slack)

\* a ranking with both a strict descent and a tie whose higher index is first
C9_Witness ==
    /\ pc = "ranked"
    /\ \E score \in {RankScore} :
          /\ \E i \in 1..(Len(candidates) - 1) :
                At(score, candidates[i]) > At(score, candidates[i + 1])
          /\ \E i \in 1..(Len(candidates) - 1) :
                /\ At(score, candidates[i]) = At(score, candidates[i + 1])
                /\ candidates[i] > candidates[i + 1]

\* C10: on [0,0,0,5,5,5,5,0,0,0] under the scenario's configuration exactly one
\* window is returned, and it covers the plateau, seconds 3 through 6.
C10_PlateauScenario ==
    (pc = "selected" /\ rms = PlateauSeries /\ c = PlateauCfg) =>
        /\ Len(sel.wins) = 1
        /\ sel.wins[1][1] <= 3
        /\ sel.wins[1][2] >= 6

\* the scenario ran to its result
C10_Witness ==
    /\ pc = "selected"
    /\ rms = PlateauSeries
    /\ c = PlateauCfg
    /\ Len(sel.wins) = 1
    /\ sel.chosen_centers[1] \in {4, 5}

\* the bounds of refine_clip_window's start search for the drawn arguments
RefPeak == Clip(args.peak_sec, 0, Len(rms) - 1)

RefStartLo == Max2(0, RefPeak - c.pre_search_sec)

RefStartHi == Max2(0, RefPeak - c.min_leadin_sec)

RefRampFound == \E t \in RefStartLo..(RefStartHi - 1) : IsRamp(rms, t, args.thr100)

\* C4 as stated: every returned window has end > start and
\* start >= max(0, peak - pre_search_sec), also when the fallback start is used.
C4_StartNotBeforeSearch ==
    (pc = "ret" /\ ~ret.none) =>
        /\ ret.end > ret.start
        /\ ret.start >= RefStartLo

\* C4 amended: every returned window has end > start; its start is
\* >= max(0, peak - pre_search_sec) when an activity ramp is found, and is the
\* fallback max(0, peak - 8) when none is found, which lies before
\* max(0, peak - pre_search_sec) whenever pre_search_sec < 8 and peak > pre_search_sec.
C4_StartRampOrFallback ==
    (pc = "ret" /\ ~ret.none) =>
        /\ ret.end > ret.start
        /\ RefRampFound => ret.start >= RefStartLo
        /\ ~RefRampFound => ret.start = Max2(0, RefPeak - FallbackLead)
        /\ ret.start >= Max2(0, RefPeak - Max2(c.pre_search_sec, FallbackLead))

\* a window was returned from the fallback start, for a peak more than eight
\* seconds into the series
C4_Witness ==
    /\ pc = "ret"
    /\ ~ret.none
    /\ ~RefRampFound
    /\ RefPeak > FallbackLead
    /\ ret.start = RefPeak - FallbackLead
    /\ ret.start < RefStartLo

\* C6: choose_hook_offset_sec returns a value in [0, clip_duration - hook_duration]
\* whenever clip_duration > hook_duration, and exactly 0 when hook_duration <= 0
\* or hook_duration >= clip_duration.
C6_HookOffsetInRange ==
    pc = "ret" =>
        /\ args.clip_dur_q > args.hook_q =>
              (0 <= ret /\ ret <= args.clip_dur_q - args.hook_q)
        /\ (args.hook_q <= 0 \/ args.hook_q >= args.clip_dur_q) => ret = 0

\* the sliding-window search ran on a clip that starts on a half second and
\* placed the hook strictly inside the clip
C6_Witness ==
    /\ pc = "ret"
    /\ args.clip_start_q = 2
    /\ args.hook_q > 0
    /\ 0 < ret
    /\ ret < args.clip_dur_q - args.hook_q

\* C7 as stated: the returned duration always lies in [min_duration, max_duration].
C7_LoopDurationInRange ==
    pc = "ret" => (args.min_d_q <= ret /\ ret <= args.max_d_q)

\* C7 amended: the returned duration is always >= min_duration and
\* <= max(max_duration, min_duration, hook_duration); it lies in
\* [min_duration, max_duration] whenever min_duration <= max_duration and
\* hook_duration <= max_duration.
C7_LoopDurationBounds ==
    pc = "ret" =>
        /\ args.min_d_q <= ret
        /\ ret <= Max2(args.max_d_q, Max2(args.min_d_q, args.hook_q))
        /\ (args.min_d_q <= args.max_d_q /\ args.hook_q <= args.max_d_q)
              => ret <= args.max_d_q

\* the search loop passed over the longest candidate and accepted a shorter one
\* above min_duration
C7_Witness ==
    /\ pc = "ret"
    /\ args.min_d_q < ret
    /\ ret < 4 * FloorQ(FeasibleMax(args))
    /\ ret <= args.max_d_q

\* C5: every clip handed to render_vertical_short satisfies the ClipPlan
\* invariant: hook_start_offset + hook_duration <= final_duration,
\* final_start >= 0 and final_start + final_duration <= probed duration.
C5_ClipPlanInvariant ==
    \A k \in 1..Len(plans) :
        /\ plans[k].hook_start_offset_sec + plans[k].hook_sec <= plans[k].dur_sec
        /\ plans[k].start_sec >= 0
        /\ plans[k].start_sec + plans[k].dur_sec <= env.duration_q

\* ---------------------------------------------- refine_clip_window: the end --

\* the start refine_clip_window settles on, and the bounds of its end search,
\* for the drawn arguments
RefStart == RefineStart(rms, RefPeak, c, args.thr100)

RefMinEnd == RefStart + c.min_dur_sec

RefHardEnd == Min2(Len(rms) - 1, RefStart + c.max_dur_sec)

RefQuiet(t) == 100 * At(rms, t) < args.thr100

\* the first second of the run of quiet seconds, counted from RefMinEnd, that
\* second t closes
RefRunBegan(t) ==
    CHOOSE b \in RefMinEnd..t :
        /\ \A u \in b..t : RefQuiet(u)
        /\ (b = RefMinEnd \/ ~RefQuiet(b - 1))

\* the seconds of the end search at which the quiet run has reached
\* end_silence_run_sec
RefRunReached ==
    { t \in RefMinEnd..RefHardEnd :
        RefQuiet(t) /\ t - RefRunBegan(t) + 1 >= c.end_silence_run_sec }

RefFirstReached == CHOOSE t \in RefRunReached : \A u \in RefRunReached : t <= u

\* C11 as stated: the end of a returned window is the second where the quiet run
\* that reached end_silence_run_sec began, and start + max_dur_sec when no run
\* reaches that length.
C11_EndAtRunStartOrMaxDur ==
    (pc = "ret" /\ ~ret.none) =>
        IF RefRunReached # {}
        THEN ret.end = RefRunBegan(RefFirstReached)
        ELSE ret.end = RefStart + c.max_dur_sec

\* C11 amended: the end of a returned window is t - end_silence_run_sec + 1 for
\* the first second t at which the quiet run reaches end_silence_run_sec (the
\* second the run began whenever end_silence_run_sec >= 1), and
\* min(len - 1, start + max_dur_sec) when no run reaches that length.
C11_EndAtRunStartOrHardEnd ==
    (pc = "ret" /\ ~ret.none) =>
        IF RefRunReached # {}
        THEN /\ ret.end = RefFirstReached - c.end_silence_run_sec + 1
             /\ c.end_silence_run_sec >= 1 => ret.end = RefRunBegan(RefFirstReached)
        ELSE ret.end = RefHardEnd

\* a window ended where a quiet run of two seconds began, after min_end and
\* before the hard end
C11_Witness ==
    /\ pc = "ret"
    /\ ~ret.none
    /\ c.end_silence_run_sec = 2
    /\ RefRunReached # {}
    /\ ret.end = RefFirstReached - 1
    /\ ret.end > RefMinEnd
    /\ ret.end < RefHardEnd

\* ------------------------------------------------------ the quiet fraction --

\* the threshold select_highlight_starts computed for the series
SelThr100 == sel.thr100

\* the seconds of the window (s, e) over which silence_fraction is taken:
\* rms[s : e + 1]
SegSeconds(s, e) == { t \in s..e : t < Len(rms) }

\* the seconds of the window whose energy is at or below the threshold
QuietSeconds(s, e) == { t \in SegSeconds(s, e) : 100 * At(rms, t) <= SelThr100 }

\* C12: every window returned by select_highlight_starts has a fraction of
\* seconds with energy <= threshold that is at most max_silence_frac.
C12_QuietFractionAtMost ==
    pc = "selected" =>
        \A k \in 1..Len(sel.wins) :
            100 * Cardinality(QuietSeconds(sel.wins[k][1], sel.wins[k][2]))
                <= c.max_silence_frac * Cardinality(SegSeconds(sel.wins[k][1], sel.wins[k][2]))

\* -------------------------------------- refine_clip_window: window bounds --

\* C13: every window returned by refine_clip_window has start and end inside
\* [0, len(series)) and a length end - start in [min_dur_sec, max_dur_sec].
C13_WindowInsideSeriesAndBounded ==
    (pc = "ret" /\ ~ret.none) =>
        /\ 0 <= ret.start /\ ret.start < Len(rms)
        /\ 0 <= ret.end /\ ret.end < Len(rms)
        /\ c.min_dur_sec <= ret.end - ret.start
        /\ ret.end - ret.start <= c.max_dur_sec

\* ------------------------------------- refine_clip_window: the start search --

\* the seconds t of [max(0, peak - pre_search), peak - min_leadin) that ramp
\* into activity: series[t] >= threshold, (t = 0 or series[t] >= series[t-1])
\* and series[t+1] >= threshold
RefRampSeconds ==
    { t \in RefStartLo..(RefPeak - c.min_leadin_sec - 1) :
        /\ 100 * At(rms, t) >= args.thr100
        /\ (t = 0 \/ At(rms, t) >= At(rms, t - 1))
        /\ 100 * At(rms, t + 1) >= args.thr100 }

\* C14: the start of a returned window is the smallest second of the search
\* range that ramps into activity, and max(0, peak - 8) when there is none.
C14_StartIsFirstRamp ==
    (pc = "ret" /\ ~ret.none) =>
        IF RefRampSeconds # {}
        THEN /\ ret.start \in RefRampSeconds
             /\ \A t \in RefRampSeconds : ret.start <= t
        ELSE ret.start = Max2(0, RefPeak - FallbackLead)

\* the start search passed over seconds that are not ramps, one of them at or
\* above the threshold but quieter than the second before it, and settled on
\* a later ramp
C14_Witness ==
    /\ pc = "ret"
    /\ ~ret.none
    /\ ret.start \in RefRampSeconds
    /\ ret.start > RefStartLo
    /\ \E t \in RefStartLo..(ret.start - 1) :
          /\ 100 * At(rms, t) >= args.thr100
          /\ t > 0
          /\ At(rms, t) < At(rms, t - 1)

\* ------------------------------------- choose_loop_duration_sec: the search --

\* feasible_max as the claim gives it
LoopFeasibleMax ==
    Max2(args.hook_q,
         Min2(args.max_d_q, args.hook_q + (args.climax_q - args.window_start_q)))

\* whether the body [climax_time - (d - hook_duration), climax_time) of
\* duration d is too silent
LoopBodyTooSilent(d_q) ==
    FracExceeds(silence_fraction_adaptive(args.climax_q - (d_q - args.hook_q),
                                          args.climax_q, rms, args.silence_percentile),
                args.max_silence_frac)

\* the whole-second durations from floor(feasible_max) down to min_duration
LoopDurations ==
    { d_q \in 0..(4 * FloorQ(LoopFeasibleMax)) :
        /\ (4 * FloorQ(LoopFeasibleMax) - d_q) % 4 = 0
        /\ d_q >= args.min_d_q }

LoopQualifying == { d_q \in LoopDurations : ~LoopBodyTooSilent(d_q) }

\* C15 as stated: the result is the largest duration of the downward scan whose
\* body is not too silent, and min_duration when none qualifies.
C15_LargestQualifyingOrMin ==
    pc = "ret" =>
        IF LoopQualifying # {}
        THEN /\ ret \in LoopQualifying
             /\ \A d_q \in LoopQualifying : d_q <= ret
        ELSE ret = args.min_d_q

\* C15 amended: when floor(feasible_max) < min_duration the result is
\* max(min_duration, feasible_max); otherwise it is the largest duration of the
\* downward scan whose body is not too silent, and min_duration when none
\* qualifies.
C15_LargestQualifyingOrFloor ==
    pc = "ret" =>
        IF 4 * FloorQ(LoopFeasibleMax) < args.min_d_q
        THEN ret = Max2(args.min_d_q, LoopFeasibleMax)
        ELSE IF LoopQualifying # {}
        THEN /\ ret \in LoopQualifying
             /\ \A d_q \in LoopQualifying : d_q <= ret
        ELSE ret = args.min_d_q

\* the scan rejected a longer duration as too silent and returned a shorter
\* one that qualifies
C15_Witness ==
    /\ pc = "ret"
    /\ ret \in LoopQualifying
    /\ \E d_q \in LoopDurations : d_q > ret /\ LoopBodyTooSilent(d_q)

\* -------------------------------------- choose_hook_offset_sec: the search --

\* the clip-local slice of the drawn call and its score list
HkG0 == Max2(0, FloorQ(args.clip_start_q))

HkG1 == Min2(Len(rms), CeilQ(args.clip_start_q + args.clip_dur_q))

HkAudio == Slice(rms, HkG0, HkG1)

HkMotion ==
    IF motion # NoSeries /\ Len(motion) >= HkG1 THEN Slice(motion, HkG0, HkG1) ELSE << >>

HkScene ==
    IF args.scene_events # NoSeries
    THEN _scene_counts_per_second(args.scene_events, HkG0, Len(HkAudio))
    ELSE << >>

HkScore == HookScore(HkAudio, HkMotion, HkScene, args.sh_cfg)

\* the sliding-window search runs: none of the early returns is taken
HkSearchRuns ==
    /\ args.hook_q > 0
    /\ args.clip_dur_q - args.hook_q > 0
    /\ Len(HkAudio) > Max2(1, RoundQ(args.hook_q))

\* the sub-windows of win seconds inside the last tail_len seconds of the slice
HkWindows(win, tail_len) ==
    { k \in 0..Len(HkAudio) : k >= Len(HkAudio) - tail_len /\ k + win <= Len(HkAudio) }

\* those whose average raw audio level is at least min_rms
HkLoud(win, tail_len) ==
    { k \in HkWindows(win, tail_len) :
        SumSeq(Slice(HkAudio, k, k + win)) >= args.sh_cfg.min_rms * win }

\* the sub-windows the pick is made from: the loud ones, or all of them when
\* none is loud
HkPool(win, tail_len) ==
    LET loud == HkLoud(win, tail_len)
    IN  IF loud # {} THEN loud ELSE HkWindows(win, tail_len)

\* the sub-windows of the pool with the highest average score
HkBest(win, tail_len) ==
    LET pool  == HkPool(win, tail_len)
        score == HkScore
        total == [k \in pool |-> SumSeq(Slice(score, k, k + win))]
    IN  { k \in pool : \A j \in pool : total[j] <= total[k] }

\* the offset returned for the sub-window k: its start relative to the clip
\* start, clamped into [0, clip_dur - hook]
HkOffsetOf(k) ==
    Max2(0, Min2(args.clip_dur_q - args.hook_q, 4 * (HkG0 + k) - args.clip_start_q))

\* C16 as stated: the hook is placed on a highest-scoring sub-window of
\* round(hook_duration) seconds inside the last search_tail_sec seconds of the
\* clip (the whole clip if shorter), among the loud ones, or among all of them
\* when none is loud.
C16_BestInSearchTail ==
    (pc = "ret" /\ HkSearchRuns) =>
        \E k \in HkBest(RoundQ(args.hook_q),
                        Min2(Len(HkAudio), args.sh_cfg.search_tail_sec)) :
            ret = HkOffsetOf(k)

\* the doubles the score list of the drawn call is made of
HkTerms == HookTerms(HkAudio, HkMotion, HkScene, args.sh_cfg)

\* C16 amended: the sub-windows are max(1, round(hook_duration)) seconds long
\* and lie inside the last max(win + 1, search_tail_sec) seconds of the clip
\* (the whole clip if shorter); the hook is placed on a highest-scoring one
\* among the loud ones, or among all of them when none is loud, and the offset
\* returned is its start relative to the clip start clamped into
\* [0, clip_dur - hook]. Of several sub-windows with the same highest average
\* the earliest is taken, unless the averages, equal as fractions, can differ
\* as doubles because a score that no double holds (a third, a fifth) enters
\* them; then a later one can be taken.
C16_BestInWidenedTail ==
    (pc = "ret" /\ HkSearchRuns) =>
        LET win      == Max2(1, RoundQ(args.hook_q))
            tail_len == Min2(Len(HkAudio), Max2(win + 1, args.sh_cfg.search_tail_sec))
            best     == HkBest(win, tail_len)
        IN  /\ best # {}
            /\ \E k \in best :
                  /\ \A j \in best : j < k => MayDiffer(HkTerms, j, k, win)
                  /\ ret = HkOffsetOf(k)

\* no sub-window of the tail was loud enough, and the fallback pass placed the
\* hook on a later sub-window that scores above the first one
C16_Witness ==
    /\ pc = "ret"
    /\ HkSearchRuns
    /\ LET win      == Max2(1, RoundQ(args.hook_q))
           tail_len == Min2(Len(HkAudio), Max2(win + 1, args.sh_cfg.search_tail_sec))
           best     == HkBest(win, tail_len)
       IN  /\ HkLoud(win, tail_len) = {}
           /\ \E k \in best :
                 /\ ret = HkOffsetOf(k)
                 /\ Len(HkAudio) - tail_len \notin best
                 /\ ret > HkOffsetOf(Max2(0, Len(HkAudio) - tail_len))

\* -------------------------------------------- process_video: boring filter --

\* C17: with freeze and scene detection enabled, every clip handed to the
\* renderer comes from a window whose total freeze overlap is at most
\* max_freeze_overlap_sec and that contains at least min_scene_changes
\* scene-change timestamps.
C17_RenderedWindowsNotBoring ==
    (env # NoEnv /\ env.detect_freeze /\ env.detect_scene) =>
        \A k \in 1..Len(plans) :
            /\ overlap_seconds(env.freeze_intervals, 4 * plans[k].s,
                               4 * (plans[k].s + plans[k].d)) <= env.max_freeze_q
            /\ count_events_in_window(env.scene_detected, 4 * plans[k].s,
                                      4 * (plans[k].s + plans[k].d)) >= env.min_scene

\* ---------------------------------------------- process_video: scene_events --

\* C18: whenever the clip loop is about to pass scene_events to
\* choose_hook_offset_sec (story hook enabled, a clip left to plan), the name
\* has been assigned.
C18_SceneEventsAssigned ==
    (pc = "filtered" /\ Len(plans) < Len(starts) /\ env.sh_enabled) =>
        scene_events # Unassigned

\* ------------------------------------------- process_video: delete_original --

\* C19: the original is moved to the recycle bin only if delete_original is
\* set and only after every planned clip's render call has returned; it is
\* left in place on the early return with zero clips and whenever the run
\* ended in an exception.
C19_TrashOnlyAfterAllRenders ==
    /\ trashed =>
          /\ env.delete_original
          /\ pc = "done"
          /\ starts # << >>
          /\ Len(plans) = Len(starts)
          /\ env.render_fails_at \notin 1..Len(plans)
    /\ pc \in {"returned", "raised"} => ~trashed

\* two clips were rendered and then the original was trashed
C19_Witness ==
    /\ pc = "done"
    /\ trashed
    /\ Len(plans) = 2

\* ------------------------------------------- process_video: hook at climax --

\* C20: for every clip planned with the story hook enabled, the hook segment
\* starts at the chosen climax: final_start + hook_start_offset_sec = climax_t
\* = window start + chosen hook offset.
C20_HookStartsAtClimax ==
    (env # NoEnv /\ env.sh_enabled) =>
        \A k \in 1..Len(plans) :
            /\ plans[k].climax_t = 4 * plans[k].s + plans[k].hook_offset
            /\ plans[k].start_sec + plans[k].hook_start_offset_sec = plans[k].climax_t

\* ------------------------------------ select_highlight_starts: peak inside --

\* C21: every window returned by select_highlight_starts contains the peak
\* second it was refined from: start <= peak <= end.
C21_WindowContainsPeak ==
    pc = "selected" =>
        \A k \in 1..Len(sel.chosen) :
            /\ sel.chosen[k][1] <= sel.chosen_centers[k]
            /\ sel.chosen_centers[k] <= sel.chosen[k][2]

\* --------------------------------- select_highlight_starts: candidate range --

\* C22: every candidate peak select_highlight_starts iterates over is an index
\* of the energy series, and the peak recorded for the min-gap checks is the
\* second refine_clip_window refined around.
C22_CandidatesIndexSeries ==
    /\ pc \in {"ranked", "selected"} =>
          \A i \in 1..Len(candidates) :
              0 <= candidates[i] /\ candidates[i] < Len(rms)
    /\ pc = "selected" =>
          \A k \in 1..Len(sel.chosen_centers) :
              sel.chosen_centers[k] = ClippedPeak(sel.chosen_centers[k])

\* ------------------------------------ silence_fraction_adaptive: never zero --

\* the span times tried: every half second from 0 to one second past the series
SpanTimes == { 2 * i : i \in 0..(2 * Len(rms) + 2) }

\* the seconds of the series the span [start, end) covers
SpanSeconds(start_q, end_q) ==
    IF end_q <= start_q THEN << >>
    ELSE Slice(rms, Max2(0, FloorQ(start_q)), Min2(Len(rms), CeilQ(end_q)))

\* C23: silence_fraction_adaptive never returns 0: on a non-empty span it
\* returns at least 1/len(span), and 1.0 when every second of the span has the
\* same value; so with max_silence_frac = 0 choose_loop_duration_sec accepts no
\* candidate and returns min_duration whenever floor(feasible_max) >= min_duration.
C23_SilenceFractionNeverZero ==
    pc = "ret" =>
        /\ \A start_q, end_q \in SpanTimes :
              LET frac == silence_fraction_adaptive(start_q, end_q, rms,
                                                    args.silence_percentile)
                  xs   == SpanSeconds(start_q, end_q)
              IN  /\ frac.quiet >= 1
                  /\ frac.of >= frac.quiet
                  /\ xs # << >> => frac.of = Len(xs)
                  /\ (\A i, j \in 1..Len(xs) : xs[i] = xs[j]) => frac.quiet = frac.of
        /\ (args.max_silence_frac = 0 /\ 4 * FloorQ(LoopFeasibleMax) >= args.min_d_q)
              => ret = args.min_d_q

\* with max_silence_frac = 0 the scan went through at least two durations, the
\* longest with a body that is silent only in part, and returned min_duration
C23_Witness ==
    /\ pc = "ret"
    /\ args.max_silence_frac = 0
    /\ 4 * FloorQ(LoopFeasibleMax) >= args.min_d_q + 4
    /\ ret = args.min_d_q
    /\ LET d_q  == 4 * FloorQ(LoopFeasibleMax)
           frac == silence_fraction_adaptive(args.climax_q - (d_q - args.hook_q),
                                             args.climax_q, rms, args.silence_percentile)
       IN  /\ frac.of >= 2
           /\ frac.quiet < frac.of

============================================================================
